---- MODULE Spec2Model ----
(***************************************************************************)
(* Admission-time mutation pipeline of kubevirt-vm-feature-manager:        *)
(* Handler.ServeHTTP -> Mutator.Handle -> feature rules -> failure policy   *)
(* -> createPatch.  Strings that the code formats (error texts, response    *)
(* messages) are sequences of tokens, so "the message contains the rule     *)
(* name" is "the name is one of the tokens".                                *)
(***************************************************************************)
EXTENDS Integers, Sequences, FiniteSets, TLC

VARIABLES config, env, pc, req, vm, userdataFeatures, mutatedVM, idx,
          appliedFeatures, allAnnotations, resp, calls, parserLog, previous

vars == <<config, env, pc, req, vm, userdataFeatures, mutatedVM, idx,
          appliedFeatures, allAnnotations, resp, calls, parserLog, previous>>

(* ---------------------------- bounds ----------------------------------- *)

\* most directive entries (annotation, label or userdata line) on one VM
MaxDirectives == 2

\* most volumes on one VM of the userdata parser's requests
MaxVolumes == 2

(* ---------------------------- constants -------------------------------- *)

AnnotationNestedVirt == "vm-feature-manager.io/nested-virt"
AnnotationVBiosInjection == "vm-feature-manager.io/vbios-injection"
AnnotationPciPassthrough == "vm-feature-manager.io/pci-passthrough"
AnnotationGpuDevicePlugin == "vm-feature-manager.io/gpu-device-plugin"
AnnotationSidecarImage == "vm-feature-manager.io/sidecar-image"

AnnotationNestedVirtApplied == "vm-feature-manager.io/nested-virt-applied"
AnnotationVBiosInjectionApplied == "vm-feature-manager.io/vbios-injection-applied"
AnnotationPciPassthroughApplied == "vm-feature-manager.io/pci-passthrough-applied"
AnnotationGpuDevicePluginApplied == "vm-feature-manager.io/gpu-device-plugin-applied"

FeatureNestedVirt == "nested-virt"
FeatureVBiosInjection == "vbios-injection"
FeaturePciPassthrough == "pci-passthrough"
FeatureGpuDevicePlugin == "gpu-device-plugin"

CPUFeatureSVM == "svm"
DefaultSidecarImage == "registry.k8s.io/kubevirt/sidecar-shim:v1.4.0"
HookAnnotationKey == "hooks.kubevirt.io/hookSidecars"

ErrorHandlingReject == "reject"
ErrorHandlingAllowAndLog == "allow-and-log"
ErrorHandlingStripLabel == "strip-label"

ConfigSourceAnnotations == "annotations"
ConfigSourceLabels == "labels"

\* the prefix parseDirectives puts before a directive name, and the same
\* prefix as the token of an annotation key inside a formatted message
KeyPrefix == "vm-feature-manager.io/"

StatusBadRequest == 400

(* ---------------------------- Go maps ---------------------------------- *)

\* a Go map[string]string: nil, or a finite function
NilMap == [isnil |-> TRUE, kv |-> <<>>]
MakeMap == [isnil |-> FALSE, kv |-> <<>>]

MapHas(m, k) == k \in DOMAIN m.kv

\* m[k] = v on a non-nil map
MapSet(m, k, v) ==
    [isnil |-> FALSE,
     kv |-> [x \in (DOMAIN m.kv) \cup {k} |-> IF x = k THEN v ELSE m.kv[x]]]

\* delete(m, k): a no-op on a nil map or a missing key
MapDelete(m, k) ==
    [isnil |-> m.isnil, kv |-> [x \in (DOMAIN m.kv) \ {k} |-> m.kv[x]]]

\* an error value: nil is the empty token sequence
NoErr == <<>>

(* ---------------------------- utils ------------------------------------ *)

\* strings.ToLower on the directive values of the model
ToLower(s) ==
    CASE s = "Enabled" -> "enabled"
      [] s = "TRUE" -> "true"
      [] s = "Yes" -> "yes"
      [] OTHER -> s

IsTruthyValue(value) == ToLower(value) \in {"true", "enabled", "yes", "1"}

GetConfigValue(configSource, annotations, labels, key) ==
    LET source == IF configSource = ConfigSourceLabels THEN labels ELSE annotations
    IN  IF source.isnil THEN [value |-> "", exists |-> FALSE]
        ELSE IF MapHas(source, key) THEN [value |-> source.kv[key], exists |-> TRUE]
        ELSE [value |-> "", exists |-> FALSE]

(* ---------------------------- resource --------------------------------- *)

\* userdata text: its size in bytes and its lines that match
\* featureDirectiveRegex, each with the captured name and value
EmptyText == [size |-> 0, lines |-> <<>>]

\* base64 text: the empty string, or text that decodes or fails to decode
EmptyB64 == [empty |-> TRUE, valid |-> TRUE, decoded |-> EmptyText]

NilSecretRef == [isnil |-> TRUE, name |-> ""]

\* a cloud-init source that is absent from the volume
NoCloudInit ==
    [present |-> FALSE, userData |-> EmptyText, userDataBase64 |-> EmptyB64,
     secretRef |-> NilSecretRef]

PlainCloudInit(text) ==
    [present |-> TRUE, userData |-> text, userDataBase64 |-> EmptyB64,
     secretRef |-> NilSecretRef]

NilCPU == [isnil |-> TRUE, features |-> <<>>]

\* VirtualMachineSpec with Template == nil
NilTemplateSpec ==
    [templateNil |-> TRUE, tmplAnnotations |-> NilMap, cpu |-> NilCPU,
     hostDevices |-> <<>>, volumes |-> <<>>, limits |-> NilMap]

\* &VirtualMachineInstanceTemplateSpec{}
EmptyTemplateSpec == [NilTemplateSpec EXCEPT !.templateNil = FALSE]

(* ---------------------------- userdata parser -------------------------- *)

\* len(featureValue): the two long values stand for their length
ValueLen(v) ==
    CASE v = "long-1024" -> 1024
      [] v = "long-1025" -> 1025
      [] OTHER -> Len(v)

\* strings.TrimSpace on a captured value: the capture begins and ends with a
\* non-blank byte unless the whole value is blank
TrimSpace(s) ==
    CASE s = " " -> ""
      [] OTHER -> s

RECURSIVE parseLines(_, _, _)
parseLines(lines, i, features) ==
    IF i > Len(lines) THEN features
    ELSE LET featureValue == TrimSpace(lines[i].value) IN
         IF ValueLen(featureValue) > 1024
         THEN parseLines(lines, i + 1, features)
         ELSE parseLines(lines, i + 1,
                         MapSet(features, KeyPrefix \o lines[i].name, featureValue))

\* parseDirectives that turns away text of the limit's size too
parseDirectives_Inclusive(userData) ==
    IF userData.size >= 65536 THEN MakeMap
    ELSE parseLines(userData.lines, 1, MakeMap)

parseDirectives(userData) ==
    IF userData.size > 65536 THEN MakeMap
    ELSE parseLines(userData.lines, 1, MakeMap)

RECURSIVE firstKey(_, _, _)
firstKey(data, keys, i) ==
    IF i > Len(keys) THEN [ok |-> FALSE, text |-> EmptyText]
    ELSE IF keys[i] \in DOMAIN data THEN [ok |-> TRUE, text |-> data[keys[i]]]
    ELSE firstKey(data, keys, i + 1)

\* client.Get of the Secret, then the first of the well-known keys; gets is
\* the client.Get call the function makes
fetchSecretUserData(e, namespace, secretName) ==
    LET get == [op |-> "Get", namespace |-> namespace, name |-> secretName]
    IN  IF <<namespace, secretName>> \notin DOMAIN e.secrets
        THEN [ok |-> FALSE, text |-> EmptyText, gets |-> <<get>>]
        ELSE LET r == firstKey(e.secrets[<<namespace, secretName>>],
                               <<"userdata", "userData", "user-data">>, 1)
             IN  [ok |-> r.ok, text |-> r.text, gets |-> <<get>>]

\* extractUserData that asks for the Secret before it looks at the texts
extractUserData_SecretFirst(e, v, plainText, base64Text, secretRef) ==
    IF ~secretRef.isnil THEN fetchSecretUserData(e, v.namespace, secretRef.name)
    ELSE IF plainText.size > 0 THEN [ok |-> TRUE, text |-> plainText, gets |-> <<>>]
    ELSE IF ~base64Text.empty
         THEN IF base64Text.valid
              THEN [ok |-> TRUE, text |-> base64Text.decoded, gets |-> <<>>]
              ELSE [ok |-> FALSE, text |-> EmptyText, gets |-> <<>>]
    ELSE [ok |-> TRUE, text |-> EmptyText, gets |-> <<>>]

extractUserData(e, v, plainText, base64Text, secretRef) ==
    IF plainText.size > 0 THEN [ok |-> TRUE, text |-> plainText, gets |-> <<>>]
    ELSE IF ~base64Text.empty
         THEN IF base64Text.valid
              THEN [ok |-> TRUE, text |-> base64Text.decoded, gets |-> <<>>]
              ELSE [ok |-> FALSE, text |-> EmptyText, gets |-> <<>>]
    ELSE IF ~secretRef.isnil THEN fetchSecretUserData(e, v.namespace, secretRef.name)
    ELSE [ok |-> TRUE, text |-> EmptyText, gets |-> <<>>]

RECURSIVE Perms(_)
\* the orders in which a range over a map with these keys can visit them
Perms(keys) ==
    IF keys = {} THEN {<<>>}
    ELSE UNION { { <<k>> \o rest : rest \in Perms(keys \ {k}) } : k \in keys }

RECURSIVE mergeInto(_, _, _)
\* for k, v := range src { dst[k] = v }, the range visiting the keys in order
mergeInto(dst, src, order) ==
    IF order = <<>> THEN dst
    ELSE mergeInto(MapSet(dst, Head(order), src.kv[Head(order)]), src, Tail(order))

\* what one call of extractUserData for volume i leaves in the call log
extractLog(i, source, r) ==
    [j \in 1..Len(r.gets) |->
        [op |-> "Get", volume |-> i, namespace |-> r.gets[j].namespace,
         name |-> r.gets[j].name]]
    \o << [op |-> "extractUserData", volume |-> i, source |-> source,
           ok |-> r.ok, text |-> r.text] >>

RECURSIVE parseVolumes_FirstWins(_, _, _, _)
\* the loop over the volumes keeping the value a key got from an earlier volume
parseVolumes_FirstWins(e, v, i, outs) ==
    LET vols == v.spec.volumes IN
    IF i > Len(vols) THEN outs
    ELSE
      LET vol == vols[i]
          nc == IF vol.noCloud.present
                THEN extractUserData(e, v, vol.noCloud.userData,
                                     vol.noCloud.userDataBase64, vol.noCloud.secretRef)
                ELSE [ok |-> TRUE, text |-> EmptyText, gets |-> <<>>]
          cd == IF vol.configDrive.present
                THEN extractUserData(e, v, vol.configDrive.userData,
                                     vol.configDrive.userDataBase64, vol.configDrive.secretRef)
                ELSE nc
          ncLog == IF vol.noCloud.present THEN extractLog(i, "CloudInitNoCloud", nc)
                   ELSE <<>>
          cdLog == IF nc.ok /\ vol.configDrive.present
                   THEN extractLog(i, "CloudInitConfigDrive", cd)
                   ELSE <<>>
          volLog == ncLog \o cdLog
      IN  IF ~nc.ok \/ ~cd.ok
          THEN parseVolumes_FirstWins(e, v, i + 1,
                            { [features |-> o.features, log |-> o.log \o volLog] :
                                o \in outs })
          ELSE IF cd.text.size > 0
               THEN LET volumeFeatures == parseDirectives(cd.text)
                        parsed == [op |-> "parseDirectives", volume |-> i,
                                   text |-> cd.text]
                    IN  parseVolumes_FirstWins(e, v, i + 1,
                          { [features |->
                               mergeInto(o.features, volumeFeatures,
                                         SelectSeq(order,
                                                   LAMBDA k : ~MapHas(o.features, k))),
                             log |-> o.log \o volLog \o <<parsed>>] :
                              o \in outs, order \in Perms(DOMAIN volumeFeatures.kv) })
               ELSE parseVolumes_FirstWins(e, v, i + 1,
                                 { [features |-> o.features, log |-> o.log \o volLog] :
                                     o \in outs })

RECURSIVE parseVolumes(_, _, _, _)
\* the loop over the volumes from volume i on; outs holds the features map and
\* the call log so far, one element per outcome the map ranges allow
parseVolumes(e, v, i, outs) ==
    LET vols == v.spec.volumes IN
    IF i > Len(vols) THEN outs
    ELSE
      LET vol == vols[i]
          nc == IF vol.noCloud.present
                THEN extractUserData(e, v, vol.noCloud.userData,
                                     vol.noCloud.userDataBase64, vol.noCloud.secretRef)
                ELSE [ok |-> TRUE, text |-> EmptyText, gets |-> <<>>]
          cd == IF vol.configDrive.present
                THEN extractUserData(e, v, vol.configDrive.userData,
                                     vol.configDrive.userDataBase64, vol.configDrive.secretRef)
                ELSE nc
          ncLog == IF vol.noCloud.present THEN extractLog(i, "CloudInitNoCloud", nc)
                   ELSE <<>>
          cdLog == IF nc.ok /\ vol.configDrive.present
                   THEN extractLog(i, "CloudInitConfigDrive", cd)
                   ELSE <<>>
          volLog == ncLog \o cdLog
      IN  IF ~nc.ok \/ ~cd.ok
          THEN parseVolumes(e, v, i + 1,
                            { [features |-> o.features, log |-> o.log \o volLog] :
                                o \in outs })
          ELSE IF cd.text.size > 0
               THEN LET volumeFeatures == parseDirectives(cd.text)
                        parsed == [op |-> "parseDirectives", volume |-> i,
                                   text |-> cd.text]
                    IN  parseVolumes(e, v, i + 1,
                          { [features |-> mergeInto(o.features, volumeFeatures, order),
                             log |-> o.log \o volLog \o <<parsed>>] :
                              o \in outs, order \in Perms(DOMAIN volumeFeatures.kv) })
               ELSE parseVolumes(e, v, i + 1,
                                 { [features |-> o.features, log |-> o.log \o volLog] :
                                     o \in outs })

\* ParseFeatures that returns the first extraction error to its caller
ParseFeatures_FailFast(e, v) ==
    IF v.spec.templateNil
    THEN { [features |-> MakeMap, err |-> NoErr, log |-> <<>>] }
    ELSE { IF \E j \in 1..Len(o.log) :
                 o.log[j].op = "extractUserData" /\ ~o.log[j].ok
           THEN [features |-> NilMap, err |-> <<"failed to extract userdata">>,
                 log |-> o.log]
           ELSE [features |-> o.features, err |-> NoErr, log |-> o.log] :
             o \in parseVolumes(e, v, 1, { [features |-> MakeMap, log |-> <<>>] }) }

\* the outcomes of ParseFeatures: the map, the error (nil at both returns) and
\* the calls made
ParseFeatures(e, v) ==
    IF v.spec.templateNil
    THEN { [features |-> MakeMap, err |-> NoErr, log |-> <<>>] }
    ELSE { [features |-> o.features, err |-> NoErr, log |-> o.log] :
             o \in parseVolumes(e, v, 1, { [features |-> MakeMap, log |-> <<>>] }) }

(* ---------------------------- feature rules ---------------------------- *)

\* features.MutationResult together with the VM the call leaves behind
Result(v, applied, annotations, err) ==
    [vm |-> v, applied |-> applied, annotations |-> annotations, err |-> err]

ConfigValue(cfg, v, key) == GetConfigValue(cfg.source, v.annotations, v.labels, key)

(* nested virtualization *)

NestedIsEnabled(cfg, v) ==
    IF ~cfg.nestedEnabled THEN FALSE
    ELSE LET r == ConfigValue(cfg, v, AnnotationNestedVirt)
         IN  r.exists /\ IsTruthyValue(r.value)

NestedValidate(cfg, v) ==
    LET r == ConfigValue(cfg, v, AnnotationNestedVirt) IN
    IF ~r.exists THEN NoErr
    ELSE IF r.value # "enabled"
         THEN <<"invalid value for ", KeyPrefix, FeatureNestedVirt, ": ", r.value,
                " (expected 'enabled')">>
         ELSE NoErr

\* runtime.GOARCH does not change the outcome: every branch returns svm
detectCPUFeature == CPUFeatureSVM

\* Apply that appends the CPU feature without looking for it first
NestedApply_AlwaysAppend(cfg, v) ==
    IF ~NestedIsEnabled(cfg, v) THEN Result(v, FALSE, MakeMap, NoErr)
    ELSE
      LET cpuFeature == detectCPUFeature
          s1 == IF v.spec.templateNil THEN EmptyTemplateSpec ELSE v.spec
          s2 == IF s1.cpu.isnil
                THEN [s1 EXCEPT !.cpu = [isnil |-> FALSE, features |-> <<>>]]
                ELSE s1
          s3 == [s2 EXCEPT !.cpu.features =
                   Append(@, [name |-> cpuFeature, policy |-> "require"])]
      IN  Result([v EXCEPT !.spec = s3], TRUE,
                 MapSet(MakeMap, AnnotationNestedVirtApplied, "true"), NoErr)

NestedApply(cfg, v) ==
    IF ~NestedIsEnabled(cfg, v) THEN Result(v, FALSE, MakeMap, NoErr)
    ELSE
      LET cpuFeature == detectCPUFeature
          s1 == IF v.spec.templateNil THEN EmptyTemplateSpec ELSE v.spec
          s2 == IF s1.cpu.isnil
                THEN [s1 EXCEPT !.cpu = [isnil |-> FALSE, features |-> <<>>]]
                ELSE s1
          featureExists == \E i \in 1..Len(s2.cpu.features) :
                              s2.cpu.features[i].name = cpuFeature
          s3 == IF featureExists THEN s2
                ELSE [s2 EXCEPT !.cpu.features =
                        Append(@, [name |-> cpuFeature, policy |-> "require"])]
      IN  Result([v EXCEPT !.spec = s3], TRUE,
                 MapSet(MakeMap, AnnotationNestedVirtApplied, "true"), NoErr)

(* PCI passthrough *)

PciOneDevice == "{\"devices\":[\"0000:00:02.0\"]}"
PciTwoDevices == "{\"devices\":[\"0000:00:02.0\",\"0000:01:00.0\"]}"
PciDuplicate == "{\"devices\":[\"0000:00:02.0\",\"0000:00:02.0\"]}"
PciNoDevices == "{\"devices\":[]}"
PciBadAddress == "{\"devices\":[\"00:02.0\"]}"

\* json.Unmarshal into PCIPassthroughSpec
ParsePci(value) ==
    CASE value = PciOneDevice -> [ok |-> TRUE, devices |-> <<"0000:00:02.0">>]
      [] value = PciTwoDevices -> [ok |-> TRUE, devices |-> <<"0000:00:02.0", "0000:01:00.0">>]
      [] value = PciDuplicate -> [ok |-> TRUE, devices |-> <<"0000:00:02.0", "0000:00:02.0">>]
      [] value = PciNoDevices -> [ok |-> TRUE, devices |-> <<>>]
      [] value = PciBadAddress -> [ok |-> TRUE, devices |-> <<"00:02.0">>]
      [] OTHER -> [ok |-> FALSE, devices |-> <<>>]

pciAddressRegex(device) == device \in {"0000:00:02.0", "0000:01:00.0"}

\* "pci_" + the address with ':' and '.' replaced by '_'
PciDeviceName(pciAddr) ==
    CASE pciAddr = "0000:00:02.0" -> "pci_0000_00_02_0"
      [] pciAddr = "0000:01:00.0" -> "pci_0000_01_00_0"
      [] pciAddr = "00:02.0" -> "pci_00_02_0"
      [] OTHER -> "pci_" \o pciAddr

PciIsEnabled(cfg, v) ==
    LET r == ConfigValue(cfg, v, AnnotationPciPassthrough)
    IN  r.exists /\ r.value # ""

RECURSIVE pciCheckDevices(_, _, _)
pciCheckDevices(devices, i, seen) ==
    IF i > Len(devices) THEN NoErr
    ELSE IF devices[i] \in seen
         THEN <<"duplicate PCI device address: ", devices[i]>>
    ELSE IF ~pciAddressRegex(devices[i])
         THEN <<"invalid PCI address format: ", devices[i], " (expected DDDD:BB:DD.F)">>
    ELSE pciCheckDevices(devices, i + 1, seen \cup {devices[i]})

PciValidate(cfg, v) ==
    LET r == ConfigValue(cfg, v, AnnotationPciPassthrough) IN
    IF ~r.exists THEN NoErr
    ELSE LET spec == ParsePci(r.value) IN
         IF ~spec.ok
         THEN <<"invalid JSON in ", KeyPrefix, FeaturePciPassthrough, ": ", "json error">>
         ELSE IF Len(spec.devices) = 0
         THEN <<"no devices specified in ", KeyPrefix, FeaturePciPassthrough>>
         ELSE pciCheckDevices(spec.devices, 1, {})

RECURSIVE pciAddDevices(_, _, _, _, _)
\* the loop over spec.Devices: existingDevices is not updated inside it
pciAddDevices(devices, i, existingDevices, hostDevices, added) ==
    IF i > Len(devices) THEN [hostDevices |-> hostDevices, added |-> added]
    ELSE LET deviceName == PciDeviceName(devices[i]) IN
         IF deviceName \in existingDevices
         THEN pciAddDevices(devices, i + 1, existingDevices, hostDevices, added)
         ELSE pciAddDevices(devices, i + 1, existingDevices,
                            Append(hostDevices,
                                   [name |-> <<"pci-device-", i - 1>>,
                                    deviceName |-> deviceName]),
                            Append(added, devices[i]))

\* Apply that reports applied whether or not it added a device
PciApply_AlwaysApplied(cfg, v) ==
    LET r == ConfigValue(cfg, v, AnnotationPciPassthrough) IN
    IF ~r.exists \/ r.value = "" THEN Result(v, FALSE, MakeMap, NoErr)
    ELSE IF v.spec.templateNil THEN Result(v, FALSE, MakeMap, <<"VM template is nil">>)
    ELSE LET spec == ParsePci(r.value) IN
         IF ~spec.ok
         THEN Result(v, FALSE, MakeMap,
                     <<"invalid JSON in ", KeyPrefix, FeaturePciPassthrough, ": ", "json error">>)
         ELSE
           LET existingDevices == {v.spec.hostDevices[i].deviceName :
                                      i \in 1..Len(v.spec.hostDevices)}
               out == pciAddDevices(spec.devices, 1, existingDevices,
                                    v.spec.hostDevices, <<>>)
           IN  Result([v EXCEPT !.spec.hostDevices = out.hostDevices], TRUE,
                      MapSet(MakeMap, AnnotationPciPassthroughApplied,
                             ToString(out.added)),
                      NoErr)

PciApply(cfg, v) ==
    LET r == ConfigValue(cfg, v, AnnotationPciPassthrough) IN
    IF ~r.exists \/ r.value = "" THEN Result(v, FALSE, MakeMap, NoErr)
    ELSE IF v.spec.templateNil THEN Result(v, FALSE, MakeMap, <<"VM template is nil">>)
    ELSE LET spec == ParsePci(r.value) IN
         IF ~spec.ok
         THEN Result(v, FALSE, MakeMap,
                     <<"invalid JSON in ", KeyPrefix, FeaturePciPassthrough, ": ", "json error">>)
         ELSE
           LET existingDevices == {v.spec.hostDevices[i].deviceName :
                                      i \in 1..Len(v.spec.hostDevices)}
               out == pciAddDevices(spec.devices, 1, existingDevices,
                                    v.spec.hostDevices, <<>>)
               applied == Len(out.added) > 0
           IN  Result([v EXCEPT !.spec.hostDevices = out.hostDevices], applied,
                      IF applied
                      THEN MapSet(MakeMap, AnnotationPciPassthroughApplied,
                                  ToString(out.added))
                      ELSE MakeMap,
                      NoErr)

(* vBIOS injection *)

\* DNS-subdomain names of the model that configMapNameRegex accepts
configMapNameRegex(name) == name \in {"test-vbios", "other-vbios"}

\* image references of the model that imageRefRegex accepts
imageRefRegex(image) == image \in {DefaultSidecarImage, "example.io/sidecar:v1"}

VBiosIsEnabled(cfg, v) ==
    LET r == ConfigValue(cfg, v, AnnotationVBiosInjection)
    IN  r.exists /\ r.value # ""

VBiosValidate(cfg, v) ==
    LET r == ConfigValue(cfg, v, AnnotationVBiosInjection)
        configMapName == r.value
        sidecarImage == IF MapHas(v.annotations, AnnotationSidecarImage)
                        THEN v.annotations.kv[AnnotationSidecarImage] ELSE ""
    IN
    IF ~r.exists THEN NoErr
    ELSE IF configMapName = ""
         THEN <<"empty ConfigMap name in ", KeyPrefix, FeatureVBiosInjection,
                " configuration key">>
    ELSE IF Len(configMapName) > 253
         THEN <<"ConfigMap name too long (max 253 characters): ", configMapName>>
    ELSE IF ~configMapNameRegex(configMapName)
         THEN <<"invalid ConfigMap name format: ", configMapName,
                " (must be a valid DNS subdomain)">>
    ELSE IF sidecarImage # "" /\ ~imageRefRegex(sidecarImage)
         THEN <<"invalid sidecar image reference: ", sidecarImage>>
    ELSE NoErr

addVBiosVolume(spec, configMapName) ==
    IF \E i \in 1..Len(spec.volumes) : spec.volumes[i].name = "vbios-rom"
    THEN spec
    ELSE [spec EXCEPT !.volumes =
            Append(@, [name |-> "vbios-rom", noCloud |-> NoCloudInit,
                       configDrive |-> NoCloudInit, configMap |-> configMapName])]

\* json.Marshal of the one-element []HookSidecar
HookJSON(sidecarImage) ==
    "[{\"image\":\"" \o sidecarImage
       \o "\",\"imagePullPolicy\":\"IfNotPresent\",\"args\":[\"--version\",\"v1alpha2\",\"--hook-type\",\"onDefineDomain\"]}]"

addHookSidecar(spec, sidecarImage) ==
    LET anns == IF spec.tmplAnnotations.isnil THEN MakeMap ELSE spec.tmplAnnotations
    IN  IF MapHas(anns, HookAnnotationKey) /\ anns.kv[HookAnnotationKey] # ""
        THEN [spec EXCEPT !.tmplAnnotations = anns]
        ELSE [spec EXCEPT !.tmplAnnotations =
                MapSet(anns, HookAnnotationKey, HookJSON(sidecarImage))]

VBiosApply(cfg, v) ==
    LET r == ConfigValue(cfg, v, AnnotationVBiosInjection)
        configMapName == r.value
    IN
    IF ~r.exists \/ configMapName = "" THEN Result(v, FALSE, MakeMap, NoErr)
    ELSE IF v.spec.templateNil THEN Result(v, FALSE, MakeMap, <<"VM template is nil">>)
    ELSE IF VBiosValidate(cfg, v) # NoErr
         THEN Result(v, FALSE, MakeMap, VBiosValidate(cfg, v))
    ELSE
      LET custom == IF MapHas(v.annotations, AnnotationSidecarImage)
                    THEN v.annotations.kv[AnnotationSidecarImage] ELSE ""
          sidecarImage == IF custom # "" THEN custom ELSE DefaultSidecarImage
          s1 == addVBiosVolume(v.spec, configMapName)
          s2 == addHookSidecar(s1, sidecarImage)
      IN  Result([v EXCEPT !.spec = s2], TRUE,
                 MapSet(MakeMap, AnnotationVBiosInjectionApplied, configMapName), NoErr)

(* GPU device plugin *)

\* resource names of the model that devicePluginNameRegex accepts
devicePluginNameRegex(name) == name \in {"nvidia.com/gpu", "amd.com/gpu"}

GpuIsEnabled(cfg, v) ==
    LET r == ConfigValue(cfg, v, AnnotationGpuDevicePlugin)
    IN  r.exists /\ r.value # ""

GpuValidate(cfg, v) ==
    LET r == ConfigValue(cfg, v, AnnotationGpuDevicePlugin) IN
    IF ~r.exists THEN NoErr
    ELSE IF r.value = "" THEN <<"GPU device plugin name cannot be empty">>
    ELSE IF ~devicePluginNameRegex(r.value)
         THEN <<"invalid device plugin name ", r.value,
                ": must be in format 'domain/resource' (e.g., nvidia.com/gpu)">>
    ELSE NoErr

\* Apply that creates the missing template before it reports that it is nil
GpuApply_InitTemplate(cfg, v) ==
    IF ~GpuIsEnabled(cfg, v) THEN Result(v, FALSE, MakeMap, NoErr)
    ELSE IF GpuValidate(cfg, v) # NoErr THEN Result(v, FALSE, MakeMap, GpuValidate(cfg, v))
    ELSE IF v.spec.templateNil
         THEN Result([v EXCEPT !.spec = EmptyTemplateSpec], FALSE, MakeMap,
                     <<"VM template is nil">>)
    ELSE
      LET pluginName == ConfigValue(cfg, v, AnnotationGpuDevicePlugin).value
          limits == IF v.spec.limits.isnil THEN MakeMap ELSE v.spec.limits
          limits2 == IF MapHas(limits, pluginName) THEN limits
                     ELSE MapSet(limits, pluginName, "1")
      IN  Result([v EXCEPT !.spec.limits = limits2], TRUE,
                 MapSet(MakeMap, AnnotationGpuDevicePluginApplied, pluginName), NoErr)

GpuApply(cfg, v) ==
    IF ~GpuIsEnabled(cfg, v) THEN Result(v, FALSE, MakeMap, NoErr)
    ELSE IF GpuValidate(cfg, v) # NoErr THEN Result(v, FALSE, MakeMap, GpuValidate(cfg, v))
    ELSE IF v.spec.templateNil THEN Result(v, FALSE, MakeMap, <<"VM template is nil">>)
    ELSE
      LET pluginName == ConfigValue(cfg, v, AnnotationGpuDevicePlugin).value
          limits == IF v.spec.limits.isnil THEN MakeMap ELSE v.spec.limits
          limits2 == IF MapHas(limits, pluginName) THEN limits
                     ELSE MapSet(limits, pluginName, "1")
      IN  Result([v EXCEPT !.spec.limits = limits2], TRUE,
                 MapSet(MakeMap, AnnotationGpuDevicePluginApplied, pluginName), NoErr)

(* the Feature interface, dispatched on the rule's name *)

FeatureNames ==
    {FeatureNestedVirt, FeaturePciPassthrough, FeatureVBiosInjection, FeatureGpuDevicePlugin}

IsEnabled(f, cfg, v) ==
    CASE f = FeatureNestedVirt -> NestedIsEnabled(cfg, v)
      [] f = FeaturePciPassthrough -> PciIsEnabled(cfg, v)
      [] f = FeatureVBiosInjection -> VBiosIsEnabled(cfg, v)
      [] f = FeatureGpuDevicePlugin -> GpuIsEnabled(cfg, v)

Validate(f, cfg, v) ==
    CASE f = FeatureNestedVirt -> NestedValidate(cfg, v)
      [] f = FeaturePciPassthrough -> PciValidate(cfg, v)
      [] f = FeatureVBiosInjection -> VBiosValidate(cfg, v)
      [] f = FeatureGpuDevicePlugin -> GpuValidate(cfg, v)

Apply(f, cfg, v) ==
    CASE f = FeatureNestedVirt -> NestedApply(cfg, v)
      [] f = FeaturePciPassthrough -> PciApply(cfg, v)
      [] f = FeatureVBiosInjection -> VBiosApply(cfg, v)
      [] f = FeatureGpuDevicePlugin -> GpuApply(cfg, v)

(* ---------------------------- mutator ---------------------------------- *)

NoPatch == <<>>

\* the zero AdmissionResponse
NoResponse ==
    [uid |-> "", allowed |-> FALSE, patch |-> NoPatch, patchType |-> "",
     code |-> 0, message |-> <<>>]

\* allowResponse that leaves Result.Message out
allowResponse_NoNote(message) == [NoResponse EXCEPT !.allowed = TRUE]

allowResponse(message) == [NoResponse EXCEPT !.allowed = TRUE, !.message = message]

\* errorResponse that sets Allowed: true
errorResponse_Allowed(err) ==
    [NoResponse EXCEPT !.allowed = TRUE, !.code = StatusBadRequest, !.message = err]

errorResponse(err) == [NoResponse EXCEPT !.code = StatusBadRequest, !.message = err]

getFeatureAnnotationKey(featureName) ==
    CASE featureName = FeatureNestedVirt -> AnnotationNestedVirt
      [] featureName = FeatureGpuDevicePlugin -> AnnotationGpuDevicePlugin
      [] featureName = FeaturePciPassthrough -> AnnotationPciPassthrough
      [] featureName = FeatureVBiosInjection -> AnnotationVBiosInjection
      [] OTHER -> ""

\* an annotation key as it appears inside a formatted message
KeyTokens(key) ==
    CASE key = AnnotationNestedVirt -> <<KeyPrefix, FeatureNestedVirt>>
      [] key = AnnotationGpuDevicePlugin -> <<KeyPrefix, FeatureGpuDevicePlugin>>
      [] key = AnnotationPciPassthrough -> <<KeyPrefix, FeaturePciPassthrough>>
      [] key = AnnotationVBiosInjection -> <<KeyPrefix, FeatureVBiosInjection>>
      [] OTHER -> <<key>>

\* createPatch with one metadata operation for the original annotations and
\* a second one for the annotations of the copy
createPatch_SplitMetadata(e, original, mutated) ==
    IF e.marshalFails # ""
    THEN [patch |-> NoPatch,
          err |-> <<"failed to marshal ", e.marshalFails, ": ", "json error">>]
    ELSE [patch |-> << [op |-> "replace", path |-> "/spec",
                        value |-> mutated.spec],
                       [op |-> "replace", path |-> "/metadata/annotations",
                        value |-> original.annotations],
                       [op |-> "replace", path |-> "/metadata/annotations",
                        value |-> mutated.annotations] >>,
          err |-> NoErr]

\* createPatch that takes the body from the original
createPatch_FromOriginal(e, original, mutated) ==
    IF e.marshalFails # ""
    THEN [patch |-> NoPatch,
          err |-> <<"failed to marshal ", e.marshalFails, ": ", "json error">>]
    ELSE [patch |-> << [op |-> "replace", path |-> "/spec",
                        value |-> original.spec],
                       [op |-> "replace", path |-> "/metadata/annotations",
                        value |-> mutated.annotations] >>,
          err |-> NoErr]

\* the three json.Marshal calls; e.marshalFails names the one that fails
createPatch(e, original, mutated) ==
    IF e.marshalFails # ""
    THEN [patch |-> NoPatch,
          err |-> <<"failed to marshal ", e.marshalFails, ": ", "json error">>]
    ELSE [patch |-> << [op |-> "replace", path |-> "/spec",
                        value |-> mutated.spec],
                       [op |-> "replace", path |-> "/metadata/annotations",
                        value |-> mutated.annotations] >>,
          err |-> NoErr]

\* returns the response and the working copy as the call leaves it
handleError(cfg, e, featureName, err, originalVM, mutated) ==
    CASE cfg.mode = ErrorHandlingReject ->
           [resp |-> errorResponse(<<"feature ", featureName, " failed: ">> \o err),
            vm |-> mutated]
      [] cfg.mode = ErrorHandlingAllowAndLog ->
           [resp |-> allowResponse(<<"Feature ", featureName,
                                     " failed but admission allowed: ">> \o err),
            vm |-> mutated]
      [] cfg.mode = ErrorHandlingStripLabel ->
           LET annotationKey == getFeatureAnnotationKey(featureName)
               stripped == IF ~mutated.annotations.isnil /\ annotationKey # ""
                           THEN [mutated EXCEPT !.annotations = MapDelete(@, annotationKey)]
                           ELSE mutated
               p == createPatch(e, originalVM, stripped)
           IN  IF p.err # NoErr
               THEN [resp |-> allowResponse(<<"Feature ", featureName,
                                              " failed, annotation strip failed: ">> \o p.err),
                     vm |-> stripped]
               ELSE [resp |-> [NoResponse EXCEPT
                                 !.allowed = TRUE, !.patch = p.patch,
                                 !.patchType = "JSONPatch",
                                 !.message = <<"Feature ", featureName, " failed, annotation ">>
                                             \o KeyTokens(annotationKey)
                                             \o <<" stripped and admission allowed">>],
                     vm |-> stripped]
      [] OTHER -> [resp |-> errorResponse(err), vm |-> mutated]

\* hasEnabledFeatures that only looks whether rules are registered
hasEnabledFeatures_AnyRegistered(cfg, v) == Len(cfg.features) > 0

hasEnabledFeatures(cfg, v) ==
    \E i \in 1..Len(cfg.features) : IsEnabled(cfg.features[i], cfg, v)

RECURSIVE mergeUserdata_Overwrite(_, _, _)
\* the merge without the `exists` test: userdata overwrites annotations
mergeUserdata_Overwrite(annotations, features, order) ==
    IF order = <<>> THEN annotations
    ELSE mergeUserdata_Overwrite(MapSet(annotations, Head(order), features.kv[Head(order)]),
                                 features, Tail(order))

\* lines 83-90 of Handle: userdata directives go into the copy's annotations,
\* keys the annotations already hold are skipped
RECURSIVE mergeUserdata(_, _, _)
mergeUserdata(annotations, features, order) ==
    IF order = <<>> THEN annotations
    ELSE LET k == Head(order)
         IN  IF ~MapHas(annotations, k)
             THEN mergeUserdata(MapSet(annotations, k, features.kv[k]), features, Tail(order))
             ELSE mergeUserdata(annotations, features, Tail(order))

\* the copy without the merge: the extracted directives are dropped
MergedCopy_NoUserdata(v, features, order) == v

\* lines 76-91 of Handle: DeepCopy, then the merge with the range in this order
MergedCopy(v, features, order) ==
    IF Cardinality(DOMAIN features.kv) > 0
    THEN [v EXCEPT !.annotations =
            mergeUserdata(IF @.isnil THEN MakeMap ELSE @, features, order)]
    ELSE v

(* ---------------------------- inputs ----------------------------------- *)

\* directive values per rule: accepted ones and ones the rule rejects
DirectiveValues(name) ==
    CASE name = FeatureNestedVirt -> {"enabled", "true"}
      [] name = FeaturePciPassthrough -> {PciOneDevice, "not-json"}
      [] name = FeatureVBiosInjection -> {"test-vbios", "Bad_Name"}
      [] name = FeatureGpuDevicePlugin -> {"nvidia.com/gpu", "justgpu"}

Sources == {"annotations", "labels", "userdata"}

\* the tracking annotation an earlier admission of the same VM left on it
TrackingEntries ==
    { [src |-> "annotations", name |-> "nested-virt-applied", value |-> "true"] }

\* one entry on the VM: where it is written, its name, its value
Entries ==
    UNION { { [src |-> s, name |-> n, value |-> val] : val \in DirectiveValues(n) } :
            <<s, n>> \in Sources \X FeatureNames }
    \cup TrackingEntries

RECURSIVE EntrySets(_)
\* the sets of at most k entries with one value per (source, rule)
EntrySets(k) ==
    IF k = 0 THEN {{}}
    ELSE LET smaller == EntrySets(k - 1)
         IN  smaller \cup
             { S \cup {en} : <<S, en>> \in
                 { x \in smaller \X Entries :
                     \A o \in x[1] : ~(o.src = x[2].src /\ o.name = x[2].name) } }

DirectiveSets == EntrySets(MaxDirectives)

RECURSIVE SetToSeq(_)
SetToSeq(S) ==
    IF S = {} THEN <<>>
    ELSE LET x == CHOOSE y \in S : TRUE IN <<x>> \o SetToSeq(S \ {x})

MapOf(S) ==
    [isnil |-> FALSE,
     kv |-> [k \in {KeyPrefix \o en.name : en \in S} |->
               (CHOOSE en \in S : KeyPrefix \o en.name = k).value]]

\* the VirtualMachine a request carries
BuildVM(S, annNil, tmplNil) ==
    LET anns == {en \in S : en.src = "annotations"}
        labs == {en \in S : en.src = "labels"}
        uds == SetToSeq({en \in S : en.src = "userdata"})
        text == [size |-> 64 * Len(uds),
                 lines |-> [i \in 1..Len(uds) |->
                              [name |-> uds[i].name, value |-> uds[i].value]]]
    IN  [namespace |-> "default",
         annotations |-> IF anns = {} THEN (IF annNil THEN NilMap ELSE MakeMap)
                         ELSE MapOf(anns),
         labels |-> IF labs = {} THEN NilMap ELSE MapOf(labs),
         spec |-> IF tmplNil THEN NilTemplateSpec
                  ELSE [EmptyTemplateSpec EXCEPT !.volumes =
                          IF Len(uds) = 0 THEN <<>>
                          ELSE << [name |-> "cloudinit", noCloud |-> PlainCloudInit(text),
                                   configDrive |-> NoCloudInit, configMap |-> ""] >>]]

ZeroVM ==
    [namespace |-> "", annotations |-> NilMap, labels |-> NilMap, spec |-> NilTemplateSpec]

UIDs == {"uid-1"}

\* AdmissionRequest: the UID and Object.Raw, which decodes to a VM or does not
Requests ==
    { [uid |-> u, decodable |-> FALSE, object |-> ZeroVM] : u \in UIDs }
    \cup
    { [uid |-> x[1], decodable |-> TRUE, object |-> BuildVM(x[2], x[3], x[4])] :
        x \in { y \in UIDs \X DirectiveSets \X BOOLEAN \X BOOLEAN :
                  /\ y[3] => \A en \in y[2] : en.src # "annotations"
                  /\ y[4] => \A en \in y[2] : en.src # "userdata" } }

NoRequest == [uid |-> "", decodable |-> FALSE, object |-> ZeroVM]

\* no earlier request has been answered
NoRun == [req |-> NoRequest, resp |-> NoResponse]

\* the order of featureList in main
MainFeatures ==
    <<FeatureNestedVirt, FeaturePciPassthrough, FeatureVBiosInjection, FeatureGpuDevicePlugin>>

\* NewMutator takes any list; the second one is the first one reversed
ReversedFeatures ==
    <<FeatureGpuDevicePlugin, FeatureVBiosInjection, FeaturePciPassthrough, FeatureNestedVirt>>

FeatureLists == {MainFeatures, ReversedFeatures}

\* a mode no case of handleError names: the chart's default value
Modes == {ErrorHandlingReject, ErrorHandlingAllowAndLog, ErrorHandlingStripLabel, "StripLabel"}

\* the Enabled flags of the other three rules are at LoadConfig's default
Configs ==
    [mode : Modes, tracking : BOOLEAN,
     source : {ConfigSourceAnnotations, ConfigSourceLabels},
     nestedEnabled : BOOLEAN, vbiosEnabled : {TRUE}, pciEnabled : {TRUE},
     gpuEnabled : {TRUE}, features : FeatureLists]

\* the configurations of main in which every rule's Enabled flag is set or not
GateConfigs ==
    [mode : {ErrorHandlingReject}, tracking : {TRUE},
     source : {ConfigSourceAnnotations},
     nestedEnabled : BOOLEAN, vbiosEnabled : BOOLEAN, pciEnabled : BOOLEAN,
     gpuEnabled : BOOLEAN, features : {MainFeatures}]

MarshalFaults == {"", "original VM", "mutated VM", "patch"}

(* requests whose VMs carry cloud-init volumes of every shape *)

\* userdata with one directive; the inline and the encoded text disagree on it
InlineText == [size |-> 64, lines |-> <<[name |-> FeatureNestedVirt, value |-> "enabled"]>>]
EncodedText == [size |-> 64, lines |-> <<[name |-> FeatureNestedVirt, value |-> "true"]>>]

\* the userdata kept in the Secret
SecretText ==
    [size |-> 128,
     lines |-> <<[name |-> FeatureNestedVirt, value |-> "Enabled"],
                 [name |-> FeatureGpuDevicePlugin, value |-> "amd.com/gpu"]>>]

SecretName == "userdata-secret"

\* UserData, UserDataBase64 and UserDataSecretRef of one cloud-init source:
\* each is set or not, and the encoded text decodes or does not
CloudInitSources ==
    [present : {TRUE},
     userData : {EmptyText, InlineText},
     userDataBase64 : {EmptyB64,
                       [empty |-> FALSE, valid |-> TRUE, decoded |-> EncodedText],
                       [empty |-> FALSE, valid |-> FALSE, decoded |-> EmptyText]},
     secretRef : {NilSecretRef, [isnil |-> FALSE, name |-> SecretName]}]

\* a volume has one source: CloudInitNoCloud in every shape,
\* CloudInitConfigDrive with inline text or with a Secret reference, or a disk
VolumeShapes ==
    { [name |-> "volume", noCloud |-> c, configDrive |-> NoCloudInit, configMap |-> ""] :
        c \in CloudInitSources }
    \cup
    { [name |-> "volume", noCloud |-> NoCloudInit, configDrive |-> c, configMap |-> ""] :
        c \in { x \in CloudInitSources :
                  x.userDataBase64.empty /\ (x.userData.size > 0) = x.secretRef.isnil } }
    \cup
    { [name |-> "volume", noCloud |-> NoCloudInit, configDrive |-> NoCloudInit,
       configMap |-> ""] }

RECURSIVE VolumeLists(_)
VolumeLists(n) ==
    IF n = 0 THEN {<<>>}
    ELSE LET shorter == VolumeLists(n - 1)
         IN  shorter \cup { Append(l, vol) : l \in { x \in shorter : Len(x) = n - 1 },
                                              vol \in VolumeShapes }

\* the annotations of the parser's requests: none, or one valid directive
ParserAnnotations ==
    { NilMap, MapSet(MakeMap, AnnotationGpuDevicePlugin, "nvidia.com/gpu") }

ParserRequests ==
    { [uid |-> u, decodable |-> TRUE,
       object |-> [namespace |-> "default", annotations |-> a, labels |-> NilMap,
                   spec |-> [EmptyTemplateSpec EXCEPT !.volumes = l]]] :
        u \in UIDs, a \in ParserAnnotations, l \in VolumeLists(MaxVolumes) }

\* the cluster: no Secret, the Secret under each well-known key, under a key
\* the parser does not try, and in another namespace only
ParserSecrets ==
    { <<>>,
      <<"default", SecretName>> :> ("userdata" :> SecretText),
      <<"default", SecretName>> :> ("userData" :> SecretText @@ "user-data" :> InlineText),
      <<"default", SecretName>> :> ("user-data" :> SecretText),
      <<"default", SecretName>> :> ("cloud-config" :> SecretText),
      <<"kube-system", SecretName>> :> ("userdata" :> SecretText) }

ParserEnvs == { [marshalFails |-> "", secrets |-> sec] : sec \in ParserSecrets }

\* the configuration main starts with by default
ParserConfigs ==
    { c \in Configs : /\ c.mode = ErrorHandlingReject
                      /\ c.tracking
                      /\ c.source = ConfigSourceAnnotations
                      /\ c.nestedEnabled
                      /\ c.features = MainFeatures }

(* requests whose userdata is at and over the parser's limits *)

\* directive lines with values of 1024 and of 1025 bytes, with a blank value
\* and with short values
LimitLines ==
    { [name |-> FeatureNestedVirt, value |-> "enabled"],
      [name |-> FeatureNestedVirt, value |-> "long-1025"],
      [name |-> FeatureNestedVirt, value |-> " "],
      [name |-> FeatureGpuDevicePlugin, value |-> "long-1024"],
      [name |-> FeatureGpuDevicePlugin, value |-> "long-1025"],
      [name |-> FeatureGpuDevicePlugin, value |-> "nvidia.com/gpu"] }

RECURSIVE LineLists(_)
LineLists(n) ==
    IF n = 0 THEN {<<>>}
    ELSE LET shorter == LineLists(n - 1)
         IN  shorter \cup { Append(l, ln) : l \in { x \in shorter : Len(x) = n - 1 },
                                             ln \in LimitLines }

\* len(userData): below the limit, the limit, and one byte more
LimitSizes == {4096, 65536, 65537}

LimitTexts == [size : LimitSizes, lines : LineLists(MaxDirectives)]

LimitRequests ==
    { [uid |-> u, decodable |-> TRUE,
       object |-> [namespace |-> "default", annotations |-> a, labels |-> NilMap,
                   spec |-> [EmptyTemplateSpec EXCEPT !.volumes =
                               << [name |-> "cloudinit", noCloud |-> PlainCloudInit(t),
                                   configDrive |-> NoCloudInit, configMap |-> ""] >>]]] :
        u \in UIDs, a \in ParserAnnotations, t \in LimitTexts }

(* ---------------------------- state machine ---------------------------- *)

\* no request is being handled
Idle ==
    /\ pc = "idle"
    /\ req = NoRequest
    /\ vm = ZeroVM
    /\ userdataFeatures = NilMap
    /\ mutatedVM = ZeroVM
    /\ idx = 0
    /\ appliedFeatures = <<>>
    /\ allAnnotations = NilMap
    /\ resp = NoResponse
    /\ calls = <<>>
    /\ parserLog = <<>>
    /\ previous = NoRun

\* NewMutator: a Config, a rule list, and a cluster without Secrets
Init ==
    /\ config \in Configs
    /\ env = [marshalFails |-> "", secrets |-> <<>>]
    /\ Idle

\* ServeHTTP decodes an AdmissionReview and calls Handle
Receive(requests) ==
    /\ pc = "idle"
    /\ \E r \in requests : req' = r
    /\ pc' = "decode"
    /\ UNCHANGED <<config, env, vm, userdataFeatures, mutatedVM, idx, appliedFeatures,
                   allAnnotations, resp, calls, parserLog, previous>>

\* the decode step that logs the error and goes on with the zero VM
Decode_Continue ==
    /\ pc = "decode"
    /\ vm' = req.object
    /\ pc' = "parse"
    /\ resp' = resp
    /\ UNCHANGED <<config, env, req, userdataFeatures, mutatedVM, idx, appliedFeatures,
                   allAnnotations, calls, parserLog, previous>>

\* Handle, lines 53-58
Decode ==
    /\ pc = "decode"
    /\ IF req.decodable
       THEN /\ vm' = req.object
            /\ pc' = "parse"
            /\ resp' = resp
       ELSE /\ resp' = errorResponse(<<"json: cannot unmarshal">>)
            /\ pc' = "returned"
            /\ vm' = vm
    /\ UNCHANGED <<config, env, req, userdataFeatures, mutatedVM, idx, appliedFeatures,
                   allAnnotations, calls, parserLog, previous>>

\* Handle, lines 66-73
ParseUserdata ==
    /\ pc = "parse"
    /\ \E out \in ParseFeatures(env, vm) :
         /\ userdataFeatures' = IF out.err # NoErr THEN NilMap ELSE out.features
         /\ parserLog' = <<[op |-> "ParseFeatures"]>> \o out.log
                            \o <<[op |-> "return", err |-> out.err]>>
    /\ pc' = "merge"
    /\ UNCHANGED <<config, env, req, vm, mutatedVM, idx, appliedFeatures,
                   allAnnotations, resp, calls, previous>>

\* mutatedVM := vm without DeepCopy: the merge writes through to the original
CloneAndMerge_Shared ==
    /\ pc = "merge"
    /\ \E order \in Perms(DOMAIN userdataFeatures.kv) :
         /\ mutatedVM' = MergedCopy(vm, userdataFeatures, order)
         /\ vm' = MergedCopy(vm, userdataFeatures, order)
    /\ pc' = "check"
    /\ UNCHANGED <<config, env, req, userdataFeatures, idx, appliedFeatures,
                   allAnnotations, resp, calls, parserLog, previous>>

\* Handle, lines 76-91
CloneAndMerge ==
    /\ pc = "merge"
    /\ \E order \in Perms(DOMAIN userdataFeatures.kv) :
         mutatedVM' = MergedCopy(vm, userdataFeatures, order)
    /\ pc' = "check"
    /\ UNCHANGED <<config, env, req, vm, userdataFeatures, idx, appliedFeatures,
                   allAnnotations, resp, calls, parserLog, previous>>

\* Handle, lines 97-104
CheckEnabled ==
    /\ pc = "check"
    /\ IF ~hasEnabledFeatures(config, mutatedVM)
       THEN /\ resp' = allowResponse(<<"No features requested">>)
            /\ pc' = "returned"
            /\ UNCHANGED <<idx, appliedFeatures, allAnnotations>>
       ELSE /\ idx' = 1
            /\ appliedFeatures' = <<>>
            /\ allAnnotations' = MakeMap
            /\ pc' = "loop"
            /\ resp' = resp
    /\ UNCHANGED <<config, env, req, vm, userdataFeatures, mutatedVM, calls, parserLog,
                   previous>>

Call(op, f, ok, v) == [op |-> op, f |-> f, ok |-> ok, seen |-> v]

\* the loop body with `continue` in place of the return after a failed Validate
RunFeature_Continue(cfg, e, original, working, f) ==
    LET enabled == IsEnabled(f, cfg, working)
        verr == Validate(f, cfg, working)
        ar == Apply(f, cfg, working)
        cEnabled == Call("IsEnabled", f, TRUE, working)
        cValidate == Call("Validate", f, verr = NoErr, working)
        cApply == Call("Apply", f, ar.err = NoErr, working)
    IN  IF ~enabled
        THEN [calls |-> <<cEnabled>>, failed |-> FALSE, resp |-> NoResponse,
              vm |-> working, applied |-> FALSE, annotations |-> MakeMap]
        ELSE IF verr # NoErr
        THEN [calls |-> <<cEnabled, cValidate>>, failed |-> FALSE, resp |-> NoResponse,
              vm |-> working, applied |-> FALSE, annotations |-> MakeMap]
        ELSE IF ar.err # NoErr
        THEN LET h == handleError(cfg, e, f, ar.err, original, ar.vm)
             IN  [calls |-> <<cEnabled, cValidate, cApply>>, failed |-> TRUE,
                  resp |-> h.resp, vm |-> h.vm, applied |-> FALSE,
                  annotations |-> MakeMap]
        ELSE [calls |-> <<cEnabled, cValidate, cApply>>, failed |-> FALSE,
              resp |-> NoResponse, vm |-> ar.vm, applied |-> ar.applied,
              annotations |-> ar.annotations]

\* the loop body that calls Apply whatever Validate returned
RunFeature_ApplyUnvalidated(cfg, e, original, working, f) ==
    LET enabled == IsEnabled(f, cfg, working)
        verr == Validate(f, cfg, working)
        ar == Apply(f, cfg, working)
        cEnabled == Call("IsEnabled", f, TRUE, working)
        cValidate == Call("Validate", f, verr = NoErr, working)
        cApply == Call("Apply", f, ar.err = NoErr, working)
    IN  IF ~enabled
        THEN [calls |-> <<cEnabled>>, failed |-> FALSE, resp |-> NoResponse,
              vm |-> working, applied |-> FALSE, annotations |-> MakeMap]
        ELSE IF ar.err # NoErr
        THEN LET h == handleError(cfg, e, f, ar.err, original, ar.vm)
             IN  [calls |-> <<cEnabled, cValidate, cApply>>, failed |-> TRUE,
                  resp |-> h.resp, vm |-> h.vm, applied |-> FALSE,
                  annotations |-> MakeMap]
        ELSE [calls |-> <<cEnabled, cValidate, cApply>>, failed |-> FALSE,
              resp |-> NoResponse, vm |-> ar.vm, applied |-> ar.applied,
              annotations |-> ar.annotations]

\* the loop body that writes a rule's tracking annotations into the working
\* copy as soon as the rule has applied
RunFeature_TrackEarly(cfg, e, original, working, f) ==
    LET enabled == IsEnabled(f, cfg, working)
        verr == Validate(f, cfg, working)
        ar == Apply(f, cfg, working)
        cEnabled == Call("IsEnabled", f, TRUE, working)
        cValidate == Call("Validate", f, verr = NoErr, working)
        cApply == Call("Apply", f, ar.err = NoErr, working)
    IN  IF ~enabled
        THEN [calls |-> <<cEnabled>>, failed |-> FALSE, resp |-> NoResponse,
              vm |-> working, applied |-> FALSE, annotations |-> MakeMap]
        ELSE IF verr # NoErr
        THEN LET h == handleError(cfg, e, f, verr, original, working)
             IN  [calls |-> <<cEnabled, cValidate>>, failed |-> TRUE, resp |-> h.resp,
                  vm |-> h.vm, applied |-> FALSE, annotations |-> MakeMap]
        ELSE IF ar.err # NoErr
        THEN LET h == handleError(cfg, e, f, ar.err, original, ar.vm)
             IN  [calls |-> <<cEnabled, cValidate, cApply>>, failed |-> TRUE,
                  resp |-> h.resp, vm |-> h.vm, applied |-> FALSE,
                  annotations |-> MakeMap]
        ELSE [calls |-> <<cEnabled, cValidate, cApply>>, failed |-> FALSE,
              resp |-> NoResponse,
              vm |-> IF cfg.tracking /\ ar.applied
                     THEN [ar.vm EXCEPT !.annotations =
                             mergeInto(IF @.isnil THEN MakeMap ELSE @, ar.annotations,
                                       SetToSeq(DOMAIN ar.annotations.kv))]
                     ELSE ar.vm,
              applied |-> ar.applied, annotations |-> ar.annotations]

\* the body of the loop over m.features for the rule f: the calls it makes in
\* order, and either the failure policy's response or the rule's result
RunFeature(cfg, e, original, working, f) ==
    LET enabled == IsEnabled(f, cfg, working)
        verr == Validate(f, cfg, working)
        ar == Apply(f, cfg, working)
        cEnabled == Call("IsEnabled", f, TRUE, working)
        cValidate == Call("Validate", f, verr = NoErr, working)
        cApply == Call("Apply", f, ar.err = NoErr, working)
    IN  IF ~enabled
        THEN [calls |-> <<cEnabled>>, failed |-> FALSE, resp |-> NoResponse,
              vm |-> working, applied |-> FALSE, annotations |-> MakeMap]
        ELSE IF verr # NoErr
        THEN LET h == handleError(cfg, e, f, verr, original, working)
             IN  [calls |-> <<cEnabled, cValidate>>, failed |-> TRUE, resp |-> h.resp,
                  vm |-> h.vm, applied |-> FALSE, annotations |-> MakeMap]
        ELSE IF ar.err # NoErr
        THEN LET h == handleError(cfg, e, f, ar.err, original, ar.vm)
             IN  [calls |-> <<cEnabled, cValidate, cApply>>, failed |-> TRUE,
                  resp |-> h.resp, vm |-> h.vm, applied |-> FALSE,
                  annotations |-> MakeMap]
        ELSE [calls |-> <<cEnabled, cValidate, cApply>>, failed |-> FALSE,
              resp |-> NoResponse, vm |-> ar.vm, applied |-> ar.applied,
              annotations |-> ar.annotations]

\* the loop that hands every rule the copy as it was after the merge
FeatureStep_FreshCopy(faults) ==
    /\ pc = "loop"
    /\ idx <= Len(config.features)
    /\ \E mf \in faults :
       LET f == config.features[idx]
           e == [env EXCEPT !.marshalFails = mf]
           r == RunFeature(config, e, vm,
                           MergedCopy(vm, userdataFeatures,
                                      SetToSeq(DOMAIN userdataFeatures.kv)), f)
       IN  \* json.Marshal runs in this iteration only inside the strip-label policy
           /\ mf # "" => (r.failed /\ config.mode = ErrorHandlingStripLabel)
           /\ env' = e
           /\ calls' = calls \o r.calls
           /\ mutatedVM' = r.vm
           /\ IF r.failed
              THEN /\ resp' = r.resp
                   /\ pc' = "returned"
                   /\ UNCHANGED <<idx, appliedFeatures, allAnnotations>>
              ELSE /\ appliedFeatures' = IF r.applied THEN Append(appliedFeatures, f)
                                         ELSE appliedFeatures
                   /\ \E order \in Perms(DOMAIN r.annotations.kv) :
                        allAnnotations' = IF r.applied
                                          THEN mergeInto(allAnnotations, r.annotations,
                                                         order)
                                          ELSE allAnnotations
                   /\ idx' = idx + 1
                   /\ UNCHANGED <<pc, resp>>
    /\ UNCHANGED <<config, req, vm, userdataFeatures, parserLog, previous>>

\* Handle, lines 106-139: one iteration of the loop over m.features
FeatureStep(faults) ==
    /\ pc = "loop"
    /\ idx <= Len(config.features)
    /\ \E mf \in faults :
       LET f == config.features[idx]
           e == [env EXCEPT !.marshalFails = mf]
           r == RunFeature(config, e, vm, mutatedVM, f)
       IN  \* json.Marshal runs in this iteration only inside the strip-label policy
           /\ mf # "" => (r.failed /\ config.mode = ErrorHandlingStripLabel)
           /\ env' = e
           /\ calls' = calls \o r.calls
           /\ mutatedVM' = r.vm
           /\ IF r.failed
              THEN /\ resp' = r.resp
                   /\ pc' = "returned"
                   /\ UNCHANGED <<idx, appliedFeatures, allAnnotations>>
              ELSE /\ appliedFeatures' = IF r.applied THEN Append(appliedFeatures, f)
                                         ELSE appliedFeatures
                   /\ \E order \in Perms(DOMAIN r.annotations.kv) :
                        allAnnotations' = IF r.applied
                                          THEN mergeInto(allAnnotations, r.annotations,
                                                         order)
                                          ELSE allAnnotations
                   /\ idx' = idx + 1
                   /\ UNCHANGED <<pc, resp>>
    /\ UNCHANGED <<config, req, vm, userdataFeatures, parserLog, previous>>

\* the end of Handle building one add operation per tracking annotation while
\* it ranges over allAnnotations
Finish_OpPerAnnotation(faults) ==
    /\ pc = "loop"
    /\ idx > Len(config.features)
    /\ \E mf \in faults, order \in Perms(DOMAIN allAnnotations.kv) :
       LET e == [env EXCEPT !.marshalFails = mf]
           tracked == IF config.tracking /\ Len(appliedFeatures) > 0
                      THEN [mutatedVM EXCEPT !.annotations =
                              mergeInto(IF @.isnil THEN MakeMap ELSE @, allAnnotations,
                                        order)]
                      ELSE mutatedVM
           p == createPatch(e, vm, tracked)
           adds == [i \in 1..Len(order) |->
                      [op |-> "add", path |-> "/metadata/annotations/" \o order[i],
                       value |-> allAnnotations.kv[order[i]]]]
       IN  /\ env' = e
           /\ mutatedVM' = tracked
           /\ resp' = IF p.err # NoErr THEN errorResponse(p.err)
                      ELSE [NoResponse EXCEPT !.uid = req.uid, !.allowed = TRUE,
                                              !.patch = <<p.patch[1]>> \o adds,
                                              !.patchType = "JSONPatch"]
    /\ pc' = "returned"
    /\ UNCHANGED <<config, req, vm, userdataFeatures, idx, appliedFeatures,
                   allAnnotations, calls, parserLog, previous>>

\* the end of Handle without the AddTrackingAnnotations test
Finish_AlwaysTrack(faults) ==
    /\ pc = "loop"
    /\ idx > Len(config.features)
    /\ \E mf \in faults, order \in Perms(DOMAIN allAnnotations.kv) :
       LET e == [env EXCEPT !.marshalFails = mf]
           tracked == IF Len(appliedFeatures) > 0
                      THEN [mutatedVM EXCEPT !.annotations =
                              mergeInto(IF @.isnil THEN MakeMap ELSE @, allAnnotations,
                                        order)]
                      ELSE mutatedVM
           p == createPatch(e, vm, tracked)
       IN  /\ env' = e
           /\ mutatedVM' = tracked
           /\ resp' = IF p.err # NoErr THEN errorResponse(p.err)
                      ELSE [NoResponse EXCEPT !.uid = req.uid, !.allowed = TRUE,
                                              !.patch = p.patch, !.patchType = "JSONPatch"]
    /\ pc' = "returned"
    /\ UNCHANGED <<config, req, vm, userdataFeatures, idx, appliedFeatures,
                   allAnnotations, calls, parserLog, previous>>

\* the end of Handle answering a createPatch error with allowResponse
Finish_AllowOnPatchError(faults) ==
    /\ pc = "loop"
    /\ idx > Len(config.features)
    /\ \E mf \in faults, order \in Perms(DOMAIN allAnnotations.kv) :
       LET e == [env EXCEPT !.marshalFails = mf]
           tracked == IF config.tracking /\ Len(appliedFeatures) > 0
                      THEN [mutatedVM EXCEPT !.annotations =
                              mergeInto(IF @.isnil THEN MakeMap ELSE @, allAnnotations,
                                        order)]
                      ELSE mutatedVM
           p == createPatch(e, vm, tracked)
       IN  /\ env' = e
           /\ mutatedVM' = tracked
           /\ resp' = IF p.err # NoErr THEN allowResponse(p.err)
                      ELSE [NoResponse EXCEPT !.uid = req.uid, !.allowed = TRUE,
                                              !.patch = p.patch, !.patchType = "JSONPatch"]
    /\ pc' = "returned"
    /\ UNCHANGED <<config, req, vm, userdataFeatures, idx, appliedFeatures,
                   allAnnotations, calls, parserLog, previous>>

\* Handle, lines 141-172
Finish(faults) ==
    /\ pc = "loop"
    /\ idx > Len(config.features)
    /\ \E mf \in faults, order \in Perms(DOMAIN allAnnotations.kv) :
       LET e == [env EXCEPT !.marshalFails = mf]
           tracked == IF config.tracking /\ Len(appliedFeatures) > 0
                      THEN [mutatedVM EXCEPT !.annotations =
                              mergeInto(IF @.isnil THEN MakeMap ELSE @, allAnnotations,
                                        order)]
                      ELSE mutatedVM
           p == createPatch(e, vm, tracked)
       IN  /\ env' = e
           /\ mutatedVM' = tracked
           /\ resp' = IF p.err # NoErr THEN errorResponse(p.err)
                      ELSE [NoResponse EXCEPT !.uid = req.uid, !.allowed = TRUE,
                                              !.patch = p.patch, !.patchType = "JSONPatch"]
    /\ pc' = "returned"
    /\ UNCHANGED <<config, req, vm, userdataFeatures, idx, appliedFeatures,
                   allAnnotations, calls, parserLog, previous>>

\* ServeHTTP writing the response as Handle returned it
Reply_NoFill ==
    /\ pc = "returned"
    /\ resp' = resp
    /\ pc' = "replied"
    /\ UNCHANGED <<config, env, req, vm, userdataFeatures, mutatedVM, idx,
                   appliedFeatures, allAnnotations, calls, parserLog, previous>>

\* ServeHTTP, lines 351-378: the response is given the request's UID and written
Reply ==
    /\ pc = "returned"
    /\ resp' = IF resp.uid = "" THEN [resp EXCEPT !.uid = req.uid] ELSE resp
    /\ pc' = "replied"
    /\ UNCHANGED <<config, env, req, vm, userdataFeatures, mutatedVM, idx,
                   appliedFeatures, allAnnotations, calls, parserLog, previous>>

\* the locals of ServeHTTP and Handle go out of scope
Forget ==
    /\ pc = "replied"
    /\ pc' = "idle"
    /\ env' = [env EXCEPT !.marshalFails = ""]
    /\ req' = NoRequest
    /\ vm' = ZeroVM
    /\ userdataFeatures' = NilMap
    /\ mutatedVM' = ZeroVM
    /\ idx' = 0
    /\ appliedFeatures' = <<>>
    /\ allAnnotations' = NilMap
    /\ resp' = NoResponse
    /\ calls' = <<>>
    /\ parserLog' = <<>>
    /\ UNCHANGED config

\* ServeHTTP returns: nothing of the request outlives it
Return == Forget /\ UNCHANGED previous

\* ServeHTTP returns and the client keeps the request and the response it got
ReturnRecorded == Forget /\ previous' = [req |-> req, resp |-> resp]

\* the client sends the request it sent before once more
ReceiveAgain ==
    /\ pc = "idle"
    /\ previous # NoRun
    /\ req' = previous.req
    /\ pc' = "decode"
    /\ UNCHANGED <<config, env, vm, userdataFeatures, mutatedVM, idx, appliedFeatures,
                   allAnnotations, resp, calls, parserLog, previous>>

\* the members of the VM's JSON a replace operation can name: spec is always
\* written, metadata.annotations is omitted when the map has no entry
PathExists(v, path) ==
    CASE path = "/spec" -> TRUE
      [] path = "/metadata/annotations" -> DOMAIN v.annotations.kv # {}
      [] OTHER -> FALSE

RECURSIVE ApplyPatch(_, _, _)
\* the operations of createPatch applied in order, from operation i on, to the
\* object the request carried; replace fails on a member that is missing
ApplyPatch(v, patch, i) ==
    IF i > Len(patch) THEN [ok |-> TRUE, vm |-> v]
    ELSE IF patch[i].op # "replace" \/ ~PathExists(v, patch[i].path)
         THEN [ok |-> FALSE, vm |-> v]
         ELSE ApplyPatch(IF patch[i].path = "/spec"
                         THEN [v EXCEPT !.spec = patch[i].value]
                         ELSE [v EXCEPT !.annotations = patch[i].value],
                         patch, i + 1)

\* the patched object as a later request carries it: a map without entries
\* is omitted from the JSON and decodes to nil
Stored(v) ==
    IF DOMAIN v.annotations.kv = {} THEN [v EXCEPT !.annotations = NilMap] ELSE v

\* the patched VM is admitted again (an update of the stored object)
ReceivePatched ==
    /\ pc = "idle"
    /\ previous # NoRun
    /\ previous.resp.allowed
    /\ previous.resp.patch # NoPatch
    /\ LET r == ApplyPatch(previous.req.object, previous.resp.patch, 1)
       IN  /\ r.ok
           /\ req' = [previous.req EXCEPT !.object = Stored(r.vm)]
    /\ pc' = "decode"
    /\ UNCHANGED <<config, env, vm, userdataFeatures, mutatedVM, idx, appliedFeatures,
                   allAnnotations, resp, calls, parserLog, previous>>

Next ==
    \/ Receive(Requests)
    \/ Decode
    \/ ParseUserdata
    \/ CloneAndMerge
    \/ CheckEnabled
    \/ FeatureStep({""})
    \/ Finish({""})
    \/ Reply
    \/ Return

Spec == Init /\ [][Next]_vars

\* the same machine when json.Marshal may fail inside createPatch
NextFault ==
    \/ Receive(Requests)
    \/ Decode
    \/ ParseUserdata
    \/ CloneAndMerge
    \/ CheckEnabled
    \/ FeatureStep(MarshalFaults)
    \/ Finish(MarshalFaults)
    \/ Reply
    \/ Return

SpecFault == Init /\ [][NextFault]_vars

\* the same machine answering one request twice
NextRepeat ==
    \/ (previous = NoRun /\ Receive(Requests))
    \/ ReceiveAgain
    \/ Decode
    \/ ParseUserdata
    \/ CloneAndMerge
    \/ CheckEnabled
    \/ FeatureStep({""})
    \/ Finish({""})
    \/ Reply
    \/ ReturnRecorded

\* one Mutator, built as main builds it
InitRepeat == Init /\ config.features = MainFeatures

SpecRepeat == InitRepeat /\ [][NextRepeat]_vars

\* the same machine admitting a VM and then the VM its patch gives
NextReadmit ==
    \/ (previous = NoRun /\ Receive(Requests))
    \/ ReceivePatched
    \/ Decode
    \/ ParseUserdata
    \/ CloneAndMerge
    \/ CheckEnabled
    \/ FeatureStep({""})
    \/ Finish({""})
    \/ Reply
    \/ (previous = NoRun /\ ReturnRecorded)
    \/ (previous # NoRun /\ Return)

SpecReadmit == InitRepeat /\ [][NextReadmit]_vars

\* the same machine in a cluster with Secrets, for VMs with cloud-init volumes
InitParser ==
    /\ config \in ParserConfigs
    /\ env \in ParserEnvs
    /\ Idle

NextParser ==
    \/ Receive(ParserRequests)
    \/ Decode
    \/ ParseUserdata
    \/ CloneAndMerge
    \/ CheckEnabled
    \/ FeatureStep({""})
    \/ Finish({""})
    \/ Reply
    \/ Return

SpecParser == InitParser /\ [][NextParser]_vars

\* the same machine for VMs whose userdata is at and over the parser's limits
InitLimits ==
    /\ config \in ParserConfigs
    /\ env = [marshalFails |-> "", secrets |-> <<>>]
    /\ Idle

NextLimits ==
    \/ Receive(LimitRequests)
    \/ Decode
    \/ ParseUserdata
    \/ CloneAndMerge
    \/ CheckEnabled
    \/ FeatureStep({""})
    \/ Finish({""})
    \/ Reply
    \/ Return

SpecLimits == InitLimits /\ [][NextLimits]_vars

\* the same machine under every setting of the rules' Enabled flags
InitGate ==
    /\ config \in GateConfigs
    /\ env = [marshalFails |-> "", secrets |-> <<>>]
    /\ Idle

SpecGate == InitGate /\ [][Next]_vars

(* ---------------------------- properties ------------------------------- *)

\* Handle has returned its response
Returned == pc \in {"returned", "replied"}

\* the last call of the request was a Validate or Apply that returned an error
RuleFailed == Returned /\ Len(calls) > 0 /\ ~calls[Len(calls)].ok

FailedCall == calls[Len(calls)]

\* the error the failing call returned, recomputed from what the call saw
FailedErr ==
    IF FailedCall.op = "Validate" THEN Validate(FailedCall.f, config, FailedCall.seen)
    ELSE Apply(FailedCall.f, config, FailedCall.seen).err

Tokens(message) == {message[i] : i \in 1..Len(message)}

\* the rule's directive key
DirectiveKey(f) == KeyPrefix \o f

\* the source the rules read: labels or annotations of v
Primary(v) == IF config.source = ConfigSourceLabels THEN v.labels ELSE v.annotations

\* the decoded VM with the extracted directives put under its annotations
MergedView ==
    LET a == vm.annotations.kv
        u == userdataFeatures.kv
    IN  IF DOMAIN u = {} THEN vm
        ELSE [vm EXCEPT !.annotations =
                [isnil |-> FALSE,
                 kv |-> [k \in (DOMAIN a) \cup (DOMAIN u) |->
                           IF k \in DOMAIN a THEN a[k] ELSE u[k]]]]

\* C1: in Reject mode, when an enabled rule's Validate or Apply returns an
\* error, the response has allowed = false and carries no patch.
C1_RejectTotality ==
    (config.mode = ErrorHandlingReject /\ RuleFailed) =>
        (~resp.allowed /\ resp.patch = NoPatch /\ resp.patchType = "")

C1_Witness ==
    /\ config.mode = ErrorHandlingReject
    /\ RuleFailed
    /\ pc = "replied"
    /\ Len(appliedFeatures) > 0

\* C3: a directive key that primary metadata and embedded configuration both
\* carry, with different values, is seen by the rules with the primary value.
C3_Precedence ==
    pc \in {"check", "loop"} =>
        \A k \in (DOMAIN Primary(vm).kv) \cap (DOMAIN userdataFeatures.kv) :
            Primary(vm).kv[k] # userdataFeatures.kv[k] =>
                GetConfigValue(config.source, mutatedVM.annotations, mutatedVM.labels, k)
                    = [value |-> Primary(vm).kv[k], exists |-> TRUE]

C3_Witness ==
    /\ pc = "loop"
    /\ idx > 1
    /\ config.source = ConfigSourceAnnotations
    /\ \E k \in (DOMAIN vm.annotations.kv) \cap (DOMAIN userdataFeatures.kv) :
          vm.annotations.kv[k] # userdataFeatures.kv[k]

C10_FastPath ==
    (Returned /\ req.decodable
       /\ \A i \in 1..Len(config.features) :
             ~IsEnabled(config.features[i], config, MergedView)) =>
        /\ resp.allowed
        /\ resp.patch = NoPatch
        /\ resp.patchType = ""
        /\ \A k \in 1..Len(calls) : calls[k].op \notin {"Validate", "Apply"}

\* the fast path is taken by a VM that carries directives
C10_Witness ==
    /\ pc = "replied"
    /\ req.decodable
    /\ resp.allowed
    /\ resp.message = <<"No features requested">>
    /\ DOMAIN vm.annotations.kv # {}
    /\ DOMAIN userdataFeatures.kv # {}

\* the rules whose Validate and Apply both returned no error
Succeeded == {calls[k].f : k \in {j \in 1..Len(calls) : calls[j].op = "Apply" /\ calls[j].ok}}

\* the body carries the effect of rule f, requested by the directives of v
HasEffect(f, v, body) ==
    LET value == GetConfigValue(config.source, v.annotations, v.labels, DirectiveKey(f)).value
    IN  CASE f = FeatureNestedVirt ->
               \E i \in 1..Len(body.cpu.features) : body.cpu.features[i].name = CPUFeatureSVM
          [] f = FeaturePciPassthrough ->
               \A i \in 1..Len(ParsePci(value).devices) :
                  \E j \in 1..Len(body.hostDevices) :
                     body.hostDevices[j].deviceName = PciDeviceName(ParsePci(value).devices[i])
          [] f = FeatureVBiosInjection ->
               /\ \E i \in 1..Len(body.volumes) :
                     body.volumes[i].name = "vbios-rom" /\ body.volumes[i].configMap = value
               /\ MapHas(body.tmplAnnotations, HookAnnotationKey)
          [] f = FeatureGpuDevicePlugin -> MapHas(body.limits, value)

\* C2: in strip mode, when rule A has succeeded and a later rule B fails, the
\* response is Allowed with a patch whose body carries A's mutation and whose
\* metadata is the working copy's metadata without B's directive key.
C2_StripPreservation ==
    (config.mode = ErrorHandlingStripLabel /\ RuleFailed /\ Succeeded # {}) =>
        /\ resp.allowed
        /\ resp.patchType = "JSONPatch"
        /\ Len(resp.patch) = 2
        /\ resp.patch[1].path = "/spec"
        /\ \A a \in Succeeded : HasEffect(a, FailedCall.seen, resp.patch[1].value)
        /\ resp.patch[2].path = "/metadata/annotations"
        /\ LET before == FailedCall.seen.annotations
               after == resp.patch[2].value
           IN  /\ after.isnil = before.isnil
               /\ DOMAIN after.kv = (DOMAIN before.kv) \ {DirectiveKey(FailedCall.f)}
               /\ \A k \in DOMAIN after.kv : after.kv[k] = before.kv[k]

\* B's key is in the working copy's annotations, next to A's
C2_Witness ==
    /\ config.mode = ErrorHandlingStripLabel
    /\ RuleFailed
    /\ pc = "replied"
    /\ Succeeded # {}
    /\ config.source = ConfigSourceAnnotations
    /\ Cardinality(DOMAIN FailedCall.seen.annotations.kv) = 2

Position(f) == CHOOSE i \in 1..Len(config.features) : config.features[i] = f

RECURSIVE WorkingCopyBefore(_)
\* the merged view after the rules before position i have been applied in order
WorkingCopyBefore(i) ==
    IF i = 1 THEN MergedView
    ELSE LET w == WorkingCopyBefore(i - 1)
             f == config.features[i - 1]
         IN  IF IsEnabled(f, config, w) /\ Validate(f, config, w) = NoErr
                /\ Apply(f, config, w).err = NoErr
             THEN Apply(f, config, w).vm
             ELSE w

EndsWith(message, err) ==
    /\ Len(message) >= Len(err)
    /\ SubSeq(message, Len(message) - Len(err) + 1, Len(message)) = err

\* C4: after a rule's Validate or Apply has returned an error no further rule
\* operation is invoked, and the response reports that rule alone.
C4_FirstFailureOnly ==
    /\ \A k \in 1..Len(calls) : ~calls[k].ok => (k = Len(calls) /\ Returned)
    /\ RuleFailed =>
         /\ \A g \in FeatureNames \ {FailedCall.f} : g \notin Tokens(resp.message)
         /\ config.mode # ErrorHandlingStripLabel => EndsWith(resp.message, FailedErr)
         /\ config.mode \in {ErrorHandlingReject, ErrorHandlingAllowAndLog,
                             ErrorHandlingStripLabel} =>
               FailedCall.f \in Tokens(resp.message)

\* a rule later in the order is enabled and malformed too
C4_Witness ==
    /\ RuleFailed
    /\ pc = "replied"
    /\ \E j \in (Position(FailedCall.f) + 1)..Len(config.features) :
          /\ IsEnabled(config.features[j], config, FailedCall.seen)
          /\ Validate(config.features[j], config, FailedCall.seen) # NoErr

\* C5: rules are processed in registration order, and each operation of a
\* rule is evaluated on the working copy that holds the earlier rules' mutations.
C5_OrderAndView ==
    LET en == SelectSeq(calls, LAMBDA c : c.op = "IsEnabled")
    IN  /\ Len(en) <= Len(config.features)
        /\ \A i \in 1..Len(en) : en[i].f = config.features[i]
        /\ \A k \in 1..Len(calls) :
              calls[k].seen = WorkingCopyBefore(Position(calls[k].f))

\* a rule was applied to a body that an earlier rule had changed
C5_Witness ==
    /\ pc = "replied"
    /\ \E k \in 1..Len(calls) :
          /\ calls[k].op = "Apply"
          /\ calls[k].ok
          /\ calls[k].seen.spec # vm.spec

\* C6: a rule's Apply is invoked only right after the same rule's Validate
\* has returned no error on the same working copy.
C6_ApplyAfterValidate ==
    \A k \in 1..Len(calls) :
        calls[k].op = "Apply" =>
            /\ k > 1
            /\ calls[k - 1].op = "Validate"
            /\ calls[k - 1].f = calls[k].f
            /\ calls[k - 1].ok
            /\ calls[k - 1].seen = calls[k].seen

\* one rule was applied and the next one stopped at its Validate
C6_Witness ==
    /\ pc = "replied"
    /\ RuleFailed
    /\ FailedCall.op = "Validate"
    /\ \E k \in 1..Len(calls) : calls[k].op = "Apply"

\* Handle reached createPatch at its end
SuccessPath == Returned /\ req.decodable /\ idx > Len(config.features)

\* handleError reached createPatch
StripPath == RuleFailed /\ config.mode = ErrorHandlingStripLabel

\* C7 as stated: a patch-serialization error yields Denied on every path.
C7_AlwaysDenied ==
    (env.marshalFails # "" /\ (SuccessPath \/ StripPath)) => ~resp.allowed

\* C7: a patch-serialization error at the end of Handle yields Denied without
\* a patch in every failure mode; inside the strip-mode failure path it
\* yields Allowed without a patch and a note naming the rule.
C7_PatchError ==
    /\ (env.marshalFails # "" /\ SuccessPath) =>
          /\ ~resp.allowed
          /\ resp.patch = NoPatch
          /\ resp.code = StatusBadRequest
    /\ (env.marshalFails # "" /\ StripPath) =>
          /\ resp.allowed
          /\ resp.patch = NoPatch
          /\ FailedCall.f \in Tokens(resp.message)

C7_Witness ==
    /\ env.marshalFails # ""
    /\ SuccessPath
    /\ pc = "replied"
    /\ config.mode = ErrorHandlingAllowAndLog
    /\ Len(appliedFeatures) > 0

\* C8: under a mode that is none of reject, allow-and-log and strip-label, a
\* rule failure gives the response Reject gives: Denied, no patch, and the
\* message with the rule name and the error text.
C8_UnknownModeAsReject ==
    (config.mode \notin {ErrorHandlingReject, ErrorHandlingAllowAndLog,
                         ErrorHandlingStripLabel} /\ RuleFailed) =>
        /\ ~resp.allowed
        /\ resp.patch = NoPatch
        /\ resp.message = <<"feature ", FailedCall.f, " failed: ">> \o FailedErr

\* C11: when Object.Raw does not decode, the response is Denied without a patch
\* in every failure mode, and neither ParseFeatures nor any rule's IsEnabled,
\* Validate or Apply has been called.
C11_DecodeFailure ==
    (Returned /\ ~req.decodable) =>
        /\ ~resp.allowed
        /\ resp.patch = NoPatch
        /\ resp.code = StatusBadRequest
        /\ parserLog = <<>>
        /\ calls = <<>>

C11_Witness ==
    /\ pc = "replied"
    /\ ~req.decodable
    /\ config.mode = ErrorHandlingAllowAndLog

\* C12: from the decode on, the original VM stays as it was decoded, while the
\* merge, the rules, the tracking annotations and the strip change the copy.
C12_OriginalUnmodified ==
    (pc \in {"parse", "merge", "check", "loop", "returned", "replied"} /\ req.decodable)
        => vm = req.object

\* a strip after userdata was merged and an earlier rule changed the body
C12_Witness ==
    /\ pc = "replied"
    /\ RuleFailed
    /\ config.mode = ErrorHandlingStripLabel
    /\ DOMAIN userdataFeatures.kv # {}
    /\ Len(appliedFeatures) > 0
    /\ mutatedVM.spec # vm.spec
    /\ mutatedVM.annotations # vm.annotations
    /\ vm = req.object

\* the key under which a rule reports that it was applied
TrackingKey(f) ==
    CASE f = FeatureNestedVirt -> AnnotationNestedVirtApplied
      [] f = FeaturePciPassthrough -> AnnotationPciPassthroughApplied
      [] f = FeatureVBiosInjection -> AnnotationVBiosInjectionApplied
      [] f = FeatureGpuDevicePlugin -> AnnotationGpuDevicePluginApplied

\* the rules that reported Applied in this request
AppliedSet == {appliedFeatures[i] : i \in 1..Len(appliedFeatures)}

\* Handle ran the whole loop and returned the patch
Patched == SuccessPath /\ resp.patch # NoPatch

\* the value of the patch's operation on /metadata/annotations
PatchMetadata == resp.patch[2].value

\* C13 as stated: on the success path a rule's tracking key is in the patched
\* metadata if and only if tracking is configured and the rule reported applied.
C13_TrackingIff ==
    Patched =>
        \A f \in FeatureNames :
            MapHas(PatchMetadata, TrackingKey(f)) <=> (config.tracking /\ f \in AppliedSet)

\* C13 amended: the same equivalence for the tracking keys that the request's
\* VM does not carry already; a key it carries stays in the patched metadata.
C13_TrackingAdded ==
    Patched =>
        \A f \in FeatureNames :
            IF MapHas(MergedView.annotations, TrackingKey(f))
            THEN MapHas(PatchMetadata, TrackingKey(f))
            ELSE MapHas(PatchMetadata, TrackingKey(f))
                    <=> (config.tracking /\ f \in AppliedSet)

\* one rule applied and is tracked, another one did not apply and is not
C13_Witness ==
    /\ pc = "replied"
    /\ Patched
    /\ config.tracking
    /\ \E f, g \in FeatureNames :
          /\ f \in AppliedSet
          /\ g \notin AppliedSet
          /\ ~MapHas(vm.annotations, TrackingKey(f))
          /\ ~MapHas(vm.annotations, TrackingKey(g))
          /\ MapHas(PatchMetadata, TrackingKey(f))
          /\ ~MapHas(PatchMetadata, TrackingKey(g))

\* the operations of the returned patch that touch this path
OpsOn(path) == {i \in 1..Len(resp.patch) : resp.patch[i].path = path}

\* one replace of /spec and one replace of /metadata/annotations, nothing else
SingleOps ==
    /\ Len(resp.patch) = 2
    /\ Cardinality(OpsOn("/spec")) = 1
    /\ Cardinality(OpsOn("/metadata/annotations")) = 1
    /\ \A i \in 1..Len(resp.patch) : resp.patch[i].op = "replace"

\* C14 as stated: every patch has exactly one body replace and one metadata
\* replace, and when two rules both succeeded the metadata value holds the
\* tracking keys of both.
C14_SingleOpsBothKeys ==
    (Returned /\ resp.patch # NoPatch) =>
        /\ SingleOps
        /\ Cardinality(Succeeded) >= 2 =>
              \A f \in Succeeded : MapHas(PatchMetadata, TrackingKey(f))

\* C14 amended: every patch, the strip patch too, has exactly one body replace
\* and one metadata replace; when the loop ran to its end with tracking
\* configured, the metadata value holds the tracking key of every rule that
\* reported applied, however many they are.
C14_SingleOps ==
    (Returned /\ resp.patch # NoPatch) =>
        /\ SingleOps
        /\ (SuccessPath /\ config.tracking) =>
              \A f \in AppliedSet :
                 /\ MapHas(PatchMetadata, TrackingKey(f))
                 /\ PatchMetadata.kv[TrackingKey(f)]
                      = allAnnotations.kv[TrackingKey(f)]

\* two rules applied and one metadata operation carries both tracking keys
C14_Witness ==
    /\ pc = "replied"
    /\ Patched
    /\ config.tracking
    /\ Cardinality(AppliedSet) = 2
    /\ AppliedSet = Succeeded
    /\ SingleOps
    /\ \A f \in AppliedSet : ~MapHas(vm.annotations, TrackingKey(f))
    /\ \A f \in AppliedSet : MapHas(PatchMetadata, TrackingKey(f))

C16_Deterministic ==
    (pc = "replied" /\ previous.req = req) =>
        /\ resp.patch = previous.resp.patch
        /\ resp.allowed = previous.resp.allowed

\* the second answer to a request whose maps hold two keys each
C16_Witness ==
    /\ pc = "replied"
    /\ previous.req = req
    /\ Patched
    /\ Cardinality(DOMAIN allAnnotations.kv) >= 2
    /\ Cardinality(DOMAIN userdataFeatures.kv) >= 2
    /\ resp.patch = previous.resp.patch

\* C17: the response ServeHTTP writes carries the UID of the request, on the
\* fast exit, with a patch, after a decode failure and after a rule failure
\* in every mode.
C17_UIDEchoed == pc = "replied" => (resp.uid = req.uid /\ req.uid \in UIDs)

\* the denial of the default branch of handleError, which sets no UID itself
C17_Witness ==
    /\ pc = "replied"
    /\ RuleFailed
    /\ config.mode \notin
          {ErrorHandlingReject, ErrorHandlingAllowAndLog, ErrorHandlingStripLabel}
    /\ resp.uid = req.uid
    /\ resp.uid # ""

(* the userdata parser, seen from the VM and the cluster *)

\* ParseFeatures has returned to Handle
Parsed == pc \in {"merge", "check", "loop", "returned", "replied"} /\ req.decodable

VolumeIndexes == 1..Len(vm.spec.volumes)

IsCloudInit(i) ==
    vm.spec.volumes[i].noCloud.present \/ vm.spec.volumes[i].configDrive.present

\* the cloud-init source of volume i
CloudInitOf(i) ==
    IF vm.spec.volumes[i].configDrive.present THEN vm.spec.volumes[i].configDrive
    ELSE vm.spec.volumes[i].noCloud

\* the source of volume i gives neither inline nor encoded text and refers
\* to a Secret
NeedsLookup(i) ==
    /\ IsCloudInit(i)
    /\ CloudInitOf(i).userData.size = 0
    /\ CloudInitOf(i).userDataBase64.empty
    /\ ~CloudInitOf(i).secretRef.isnil

\* the Secret that volume i refers to, in the VM's namespace
SecretKey(i) == <<vm.namespace, CloudInitOf(i).secretRef.name>>

WellKnownFields == {"userdata", "userData", "user-data"}

\* volume i has encoded text that does not decode, or needs a lookup that
\* fails or that finds a Secret with none of the well-known fields
Failing(i) ==
    /\ IsCloudInit(i)
    /\ CloudInitOf(i).userData.size = 0
    /\ \/ ~CloudInitOf(i).userDataBase64.empty /\ ~CloudInitOf(i).userDataBase64.valid
       \/ /\ NeedsLookup(i)
          /\ \/ SecretKey(i) \notin DOMAIN env.secrets
             \/ /\ SecretKey(i) \in DOMAIN env.secrets
                /\ (DOMAIN env.secrets[SecretKey(i)]) \cap WellKnownFields = {}

\* the events of the parser's log for volume i
EventsOf(op, i) ==
    SelectSeq(parserLog, LAMBDA ev : ev.op = op /\ ev.volume = i)

RECURSIVE DropFailing(_, _)
\* the volumes without the failing ones, in their order
DropFailing(vols, i) ==
    IF i > Len(vols) THEN <<>>
    ELSE (IF Failing(i) THEN <<>> ELSE <<vols[i]>>) \o DropFailing(vols, i + 1)

\* C18: ParseFeatures returns no error to Handle; every cloud-init volume is
\* looked at; a volume whose encoded text does not decode, whose lookup
\* fails or whose Secret has none of the well-known fields is not parsed and
\* the extracted map is the one the other volumes give; Handle goes on with
\* the original annotations and that map.
C18_ExtractorNeverFails ==
    Parsed =>
        /\ parserLog[Len(parserLog)] = [op |-> "return", err |-> NoErr]
        /\ ~userdataFeatures.isnil
        /\ \A i \in VolumeIndexes :
              /\ IsCloudInit(i) => Len(EventsOf("extractUserData", i)) = 1
              /\ Failing(i) => /\ ~EventsOf("extractUserData", i)[1].ok
                               /\ EventsOf("parseDirectives", i) = <<>>
              /\ (IsCloudInit(i) /\ ~Failing(i)) => EventsOf("extractUserData", i)[1].ok
        /\ userdataFeatures \in
              { o.features :
                  o \in ParseFeatures(env, [vm EXCEPT !.spec.volumes = DropFailing(@, 1)]) }
        /\ pc = "check" => mutatedVM = MergedView

\* the lookup for an earlier volume fails, a later volume is still parsed, and
\* the request is answered with a patch
C18_Witness ==
    /\ pc = "replied"
    /\ Patched
    /\ \E i, j \in VolumeIndexes :
          /\ i < j
          /\ Failing(i)
          /\ NeedsLookup(i)
          /\ ~Failing(j)
          /\ EventsOf("parseDirectives", j) # <<>>
    /\ DOMAIN userdataFeatures.kv # {}
    /\ DOMAIN vm.annotations.kv # {}

\* the value of the Secret of volume i under the first well-known field it has
SecretValue(i) ==
    LET data == env.secrets[SecretKey(i)]
    IN  IF "userdata" \in DOMAIN data THEN data["userdata"]
        ELSE IF "userData" \in DOMAIN data THEN data["userData"]
        ELSE data["user-data"]

\* the text of volume i by priority: inline, then encoded, then the Secret's
ExpectedText(i) ==
    LET c == CloudInitOf(i)
    IN  IF c.userData.size > 0 THEN c.userData
        ELSE IF ~c.userDataBase64.empty
             THEN (IF c.userDataBase64.valid THEN c.userDataBase64.decoded ELSE EmptyText)
        ELSE IF NeedsLookup(i) /\ ~Failing(i) THEN SecretValue(i)
        ELSE EmptyText

\* C19: for every cloud-init volume the text handed to parseDirectives is the
\* inline text if set, else the decoded text if encoded text is set, else the
\* Secret's value; client.Get is called only for a volume with neither text,
\* once, with the VM's namespace and the referenced name.
C19_TextPriority ==
    Parsed =>
        \A i \in VolumeIndexes :
            /\ EventsOf("parseDirectives", i) =
                  IF IsCloudInit(i) /\ ExpectedText(i).size > 0
                  THEN <<[op |-> "parseDirectives", volume |-> i, text |-> ExpectedText(i)]>>
                  ELSE <<>>
            /\ EventsOf("Get", i) =
                  IF NeedsLookup(i)
                  THEN <<[op |-> "Get", volume |-> i, namespace |-> vm.namespace,
                          name |-> CloudInitOf(i).secretRef.name]>>
                  ELSE <<>>

\* one volume is read from its Secret, another one has all three set and is
\* read from its inline text without a lookup
C19_Witness ==
    /\ pc = "replied"
    /\ \E i, j \in VolumeIndexes :
          /\ NeedsLookup(i)
          /\ EventsOf("Get", i) # <<>>
          /\ EventsOf("parseDirectives", i) # <<>>
          /\ EventsOf("parseDirectives", i)[1].text = SecretText
          /\ IsCloudInit(j)
          /\ CloudInitOf(j).userData.size > 0
          /\ ~CloudInitOf(j).userDataBase64.empty
          /\ ~CloudInitOf(j).secretRef.isnil
          /\ EventsOf("Get", j) = <<>>
          /\ EventsOf("parseDirectives", j)[1].text = InlineText

\* the directives of the text of volume i, when the volume was parsed
Contribution(i) ==
    IF EventsOf("parseDirectives", i) = <<>> THEN MakeMap
    ELSE parseDirectives(EventsOf("parseDirectives", i)[1].text)

\* the volumes whose text defines the key
DefinedIn(k) == {i \in VolumeIndexes : MapHas(Contribution(i), k)}

LastOf(S) == CHOOSE i \in S : \A j \in S : j <= i

\* C20: the extracted map holds the keys that the parsed volumes define, each
\* with the value of the last volume of the VM's volume list that defines it.
C20_LastVolumeWins ==
    Parsed =>
        /\ DOMAIN userdataFeatures.kv = {k \in DOMAIN userdataFeatures.kv : DefinedIn(k) # {}}
        /\ \A i \in VolumeIndexes : DOMAIN Contribution(i).kv \subseteq DOMAIN userdataFeatures.kv
        /\ \A k \in DOMAIN userdataFeatures.kv :
              userdataFeatures.kv[k] = Contribution(LastOf(DefinedIn(k))).kv[k]

\* two volumes give the same key different values and the second one's is kept
C20_Witness ==
    /\ pc = "replied"
    /\ \E i, j \in VolumeIndexes, k \in DOMAIN userdataFeatures.kv :
          /\ i < j
          /\ MapHas(Contribution(i), k)
          /\ MapHas(Contribution(j), k)
          /\ Contribution(i).kv[k] # Contribution(j).kv[k]
          /\ userdataFeatures.kv[k] = Contribution(j).kv[k]

(* the parser's size limits *)

\* the inline text of the request's cloud-init volume
LimitText == vm.spec.volumes[1].noCloud.userData

\* the lines of the text whose trimmed value is at most 1024 bytes long
Kept(text) ==
    { i \in 1..Len(text.lines) : ValueLen(TrimSpace(text.lines[i].value)) <= 1024 }

\* the lines of S that define key k
Defining(text, S, k) == { i \in S : KeyPrefix \o text.lines[i].name = k }

\* C21: text longer than 65536 bytes contributes no directive; a directive
\* whose trimmed value is longer than 1024 bytes is dropped and the other
\* directives of the text are kept; no error is raised; text of exactly 65536
\* bytes and values of exactly 1024 bytes are accepted.
C21_SizeLimits ==
    (Parsed /\ Len(vm.spec.volumes) = 1 /\ LimitText.size > 0) =>
        /\ parserLog[Len(parserLog)] = [op |-> "return", err |-> NoErr]
        /\ ~userdataFeatures.isnil
        /\ LimitText.size > 65536 => DOMAIN userdataFeatures.kv = {}
        /\ LimitText.size <= 65536 =>
              /\ DOMAIN userdataFeatures.kv =
                    { KeyPrefix \o LimitText.lines[i].name : i \in Kept(LimitText) }
              /\ \A k \in DOMAIN userdataFeatures.kv :
                    userdataFeatures.kv[k] =
                       TrimSpace(LimitText.lines[LastOf(Defining(LimitText, Kept(LimitText),
                                                                 k))].value)

\* text of exactly 65536 bytes with a value of 1025 bytes, which is dropped,
\* and a value of 1024 bytes, which is kept
C21_Witness ==
    /\ pc = "replied"
    /\ Len(vm.spec.volumes) = 1
    /\ LimitText.size = 65536
    /\ \E i, j \in 1..Len(LimitText.lines) :
          /\ ValueLen(LimitText.lines[i].value) = 1025
          /\ ValueLen(LimitText.lines[j].value) = 1024
          /\ LimitText.lines[i].name # LimitText.lines[j].name
    /\ DOMAIN userdataFeatures.kv = {AnnotationGpuDevicePlugin}
    /\ userdataFeatures.kv[AnnotationGpuDevicePlugin] = "long-1024"

(* the rules' Enabled flags *)

\* Features.<rule>.Enabled of the configuration
EnabledInConfig(f) ==
    CASE f = FeatureNestedVirt -> config.nestedEnabled
      [] f = FeaturePciPassthrough -> config.pciEnabled
      [] f = FeatureVBiosInjection -> config.vbiosEnabled
      [] f = FeatureGpuDevicePlugin -> config.gpuEnabled

\* C22: a rule that is disabled in the configuration is never enabled,
\* whatever directives the resource carries; this holds for nested-virt, PCI
\* passthrough, vBIOS injection and the GPU device plugin.
C22_DisabledNeverEnabled ==
    pc \in {"check", "loop"} =>
        \A f \in FeatureNames :
            ~EnabledInConfig(f) =>
                /\ ~IsEnabled(f, config, mutatedVM)
                /\ \A k \in 1..Len(calls) : calls[k].f # f \/ calls[k].op = "IsEnabled"

(* a VM admitted again after its patch was applied *)

\* the request is the second admission: it carries the VM the first patch gave
Readmitted == previous # NoRun /\ req # NoRequest

\* the Apply calls of this request that returned no error on a VM that
\* already carried the rule's effect for the directive value it saw
SecondApplies ==
    { k \in 1..Len(calls) :
        /\ calls[k].op = "Apply"
        /\ calls[k].ok
        /\ HasEffect(calls[k].f, calls[k].seen, calls[k].seen.spec) }

\* C23: a rule applied a second time, with the same directive value, to a
\* resource that already carries its effect leaves the body as it was after
\* the first application: no list-valued field gets a duplicate entry.
C23_ApplyIdempotent ==
    Readmitted =>
        \A k \in SecondApplies :
            LET before == calls[k].seen.spec
                after == Apply(calls[k].f, config, calls[k].seen).vm.spec
            IN  /\ after = before
                /\ Len(after.cpu.features) = Len(before.cpu.features)
                /\ Len(after.hostDevices) = Len(before.hostDevices)
                /\ Len(after.volumes) = Len(before.volumes)

\* the second admission applies two rules whose effects, one of them an entry
\* of a list-valued field, the first admission left on the VM
C23_Witness ==
    /\ Readmitted
    /\ pc = "replied"
    /\ {calls[k].f : k \in SecondApplies} \cap
          {FeaturePciPassthrough, FeatureNestedVirt, FeatureVBiosInjection} # {}
    /\ Cardinality({calls[k].f : k \in SecondApplies}) = 2
    /\ previous.resp.patch[1].value = resp.patch[1].value

\* C24 as stated: a rule applied a second time to a resource that already
\* carries its effect reports applied = false.
C24_SecondNotApplied ==
    Readmitted => \A k \in SecondApplies : calls[k].f \notin AppliedSet

\* C24: applied a second time to a resource that already carries its effect,
\* PCI passthrough reports applied = false; nested-virt, vBIOS injection and
\* the GPU device plugin report applied = true again.
C24_SecondApplied ==
    Readmitted =>
        \A k \in SecondApplies :
            (calls[k].f \in AppliedSet) = (calls[k].f # FeaturePciPassthrough)

\* the second admission applies PCI passthrough and another rule to a VM that
\* carries the effects of both
C24_Witness ==
    /\ Readmitted
    /\ pc = "replied"
    /\ FeaturePciPassthrough \in {calls[k].f : k \in SecondApplies}
    /\ Cardinality({calls[k].f : k \in SecondApplies}) = 2
    /\ Len(appliedFeatures) = 1

(* labels as the primary source *)

\* C25: with labels as the primary source, the directives extracted from
\* embedded configuration are merged under the labels the rules read: a rule
\* requested only through embedded configuration is seen as enabled, and a
\* key the labels already hold keeps the labels' value.
C25_UserdataUnderLabels ==
    (config.source = ConfigSourceLabels /\ pc \in {"check", "loop"}) =>
        \A k \in DOMAIN userdataFeatures.kv :
            GetConfigValue(config.source, mutatedVM.annotations, mutatedVM.labels, k)
                = [value |-> IF MapHas(vm.labels, k) THEN vm.labels.kv[k]
                             ELSE userdataFeatures.kv[k],
                   exists |-> TRUE]

\* C26: with labels as the primary source, when a rule fails under strip
\* mode, the failing rule's directive key is absent from the labels of the
\* resource after the returned patch is applied.
C26_LabelStripped ==
    (config.source = ConfigSourceLabels /\ config.mode = ErrorHandlingStripLabel
       /\ RuleFailed /\ resp.patch # NoPatch) =>
        ~MapHas(ApplyPatch(vm, resp.patch, 1).vm.labels, DirectiveKey(FailedCall.f))

(* the patch applied to the original *)

\* C27: every patch returned with an Allowed response applies cleanly to the
\* original resource: each replace operation names a member the original has,
\* also when the original has no annotations map and the feature was
\* requested through embedded configuration or labels.
C27_PatchApplies ==
    (Returned /\ resp.allowed /\ resp.patch # NoPatch) =>
        /\ \A i \in 1..Len(resp.patch) :
              resp.patch[i].op = "replace" => PathExists(vm, resp.patch[i].path)
        /\ ApplyPatch(vm, resp.patch, 1).ok

(* a failing Apply *)

\* the request ended with an Apply that returned an error
ApplyFailed == RuleFailed /\ FailedCall.op = "Apply"

\* C28: an Apply that returns an error has made no change to the working
\* copy, so the strip-mode patch built after it holds exactly the mutations of
\* the rules that succeeded before it and nothing of the failing rule.
C28_FailedApplyNoChange ==
    ApplyFailed =>
        /\ Apply(FailedCall.f, config, FailedCall.seen).vm = FailedCall.seen
        /\ mutatedVM.spec = FailedCall.seen.spec
        /\ mutatedVM.labels = FailedCall.seen.labels
        /\ \A k \in DOMAIN mutatedVM.annotations.kv :
              /\ MapHas(FailedCall.seen.annotations, k)
              /\ mutatedVM.annotations.kv[k] = FailedCall.seen.annotations.kv[k]
        /\ (config.mode = ErrorHandlingStripLabel /\ resp.patch # NoPatch) =>
              /\ resp.patch[1].value = WorkingCopyBefore(Position(FailedCall.f)).spec
              /\ resp.patch[1].value = FailedCall.seen.spec

\* in strip mode a rule that is not the first of the list passes Validate and
\* fails in Apply, and the response carries a patch
C28_Witness ==
    /\ ApplyFailed
    /\ pc = "replied"
    /\ config.mode = ErrorHandlingStripLabel
    /\ resp.patch # NoPatch
    /\ Position(FailedCall.f) > 1

(* the rules' own checks and the strip path's metadata *)

\* C29: every directive value for which nested-virt's IsEnabled returns true
\* is accepted by its Validate: a VM that enables nested-virt is never sent
\* to the failure policy by nested-virt's validation.
C29_EnabledImpliesValid ==
    \A k \in 1..Len(calls) :
        (calls[k].op = "Validate" /\ calls[k].f = FeatureNestedVirt) =>
            /\ calls[k].ok
            /\ NestedIsEnabled(config, calls[k].seen)
                   => NestedValidate(config, calls[k].seen) = NoErr

\* handleError returned the strip patch
StripPatched == StripPath /\ resp.patch # NoPatch

\* C30 as stated: in strip mode the metadata of the returned patch never holds
\* a tracking annotation.
C30_StripNeverTracking ==
    StripPatched => \A f \in FeatureNames : ~MapHas(PatchMetadata, TrackingKey(f))

\* C30: in strip mode the metadata of the returned patch holds no tracking
\* annotation that this admission added, also for rules that applied before
\* the failing rule with tracking enabled; a tracking annotation in it is one
\* the request's VM carried already, with the value it had.
C30_StripNoTracking ==
    StripPatched =>
        \A f \in FeatureNames :
            MapHas(PatchMetadata, TrackingKey(f)) =>
                /\ MapHas(MergedView.annotations, TrackingKey(f))
                /\ PatchMetadata.kv[TrackingKey(f)]
                      = MergedView.annotations.kv[TrackingKey(f)]

\* with tracking enabled a rule applies and reports a tracking annotation, a
\* later rule fails, and the strip patch's metadata holds no tracking key
C30_Witness ==
    /\ StripPatched
    /\ pc = "replied"
    /\ config.tracking
    /\ AppliedSet # {}
    /\ DOMAIN allAnnotations.kv # {}
    /\ \A f \in FeatureNames : ~MapHas(PatchMetadata, TrackingKey(f))

====
